---- MODULE Spec2Model ----
(***************************************************************************)
(* A model of the BrunoQuery builder (src/unnamed/part_002): its private   *)
(* state, its fluent operations, its encoders and its decoders.            *)
(*                                                                         *)
(* Strings are sequences of tokens.  A token is a word of unreserved       *)
(* characters ("name", "filter_groups", "25"), one reserved character      *)
(* ("[", "&", " ") or one percent escape ("%20").  JavaScript objects and  *)
(* arrays live in a heap of cells and are held by reference, so that two   *)
(* builders (or a builder and its caller) can share them exactly where the *)
(* code lets them.                                                         *)
(***************************************************************************)
EXTENDS Integers, Sequences, FiniteSets, TLC

VARIABLES heap, inst, err, last

vars == <<heap, inst, err, last>>

(***************************************************************************)
(* Bounds of the model.                                                    *)
(***************************************************************************)
MaxSortArgs == 2
MaxEntries == 2
MaxStoredGroups == 2
MaxIncludes == 2

\* Let(v, F) is F(v): the value v, computed once, under the name of F's parameter.
Let(v, F(_)) == F(v)

(***************************************************************************)
(* JavaScript values.  A value is a scalar or a reference to a heap cell.  *)
(***************************************************************************)
Undef == [t |-> "undef", n |-> 0, s |-> <<>>]
Null == [t |-> "null", n |-> 0, s |-> <<>>]
NaN == [t |-> "nan", n |-> 0, s |-> <<>>]
\* A function object, such as the method a property read finds on a prototype.
Fn == [t |-> "fn", n |-> 0, s |-> <<>>]
False == [t |-> "bool", n |-> 0, s |-> <<>>]
True == [t |-> "bool", n |-> 1, s |-> <<>>]
Bool(b) == IF b THEN True ELSE False
Num(n) == [t |-> "num", n |-> n, s |-> <<>>]
Str(s) == [t |-> "str", n |-> 0, s |-> s]
Ref(a) == [t |-> "ref", n |-> a, s |-> <<>>]

\* ToBoolean: what `if (v)`, `!v` and `v || w` test.
Truthy(v) ==
  CASE v.t = "bool" -> v.n = 1
    [] v.t = "num" -> v.n # 0
    [] v.t = "str" -> v.s # <<>>
    [] v.t \in {"ref", "fn"} -> TRUE
    [] OTHER -> FALSE

(***************************************************************************)
(* Literals: the values a caller writes down, as trees.  Alloc puts a      *)
(* literal into the heap the way evaluating the literal does: one fresh    *)
(* cell per array and per object.                                          *)
(***************************************************************************)
TUndef == [t |-> "undef", n |-> 0, s |-> <<>>, ents |-> <<>>]
TNull == [t |-> "null", n |-> 0, s |-> <<>>, ents |-> <<>>]
TNaN == [t |-> "nan", n |-> 0, s |-> <<>>, ents |-> <<>>]
TBool(b) == [t |-> "bool", n |-> IF b THEN 1 ELSE 0, s |-> <<>>, ents |-> <<>>]
TNum(n) == [t |-> "num", n |-> n, s |-> <<>>, ents |-> <<>>]
TStr(s) == [t |-> "str", n |-> 0, s |-> s, ents |-> <<>>]
TArr(items) ==
  [t |-> "arr", n |-> 0, s |-> <<>>,
   ents |-> [i \in 1..Len(items) |-> [key |-> <<>>, val |-> items[i]]]]
TObj(props) ==
  [t |-> "obj", n |-> 0, s |-> <<>>,
   ents |-> [i \in 1..Len(props) |-> [key |-> props[i][1], val |-> props[i][2]]]]

IsContainer(tr) == tr.t \in {"arr", "obj"}

RECURSIVE Alloc(_, _)
RECURSIVE AllocEnts(_, _, _)
AllocEnts(h, ents, done) ==
  IF Len(done) = Len(ents) THEN [h |-> h, ents |-> done]
  ELSE Let(ents[Len(done) + 1], LAMBDA e :
       Let(Alloc(h, e.val), LAMBDA r :
       AllocEnts(r.h, ents, Append(done, [key |-> e.key, val |-> r.v]))))

Alloc(h, tr) ==
  IF ~IsContainer(tr) THEN [h |-> h, v |-> [t |-> tr.t, n |-> tr.n, s |-> tr.s]]
  ELSE Let(AllocEnts(h, tr.ents, <<>>), LAMBDA r :
       [h |-> Append(r.h, [k |-> tr.t, ents |-> r.ents]), v |-> Ref(Len(r.h) + 1)])

\* The tree a value denotes in heap h (the inverse of Alloc, up to sharing).
RECURSIVE Deep(_, _)
Deep(h, v) ==
  IF v.t # "ref" THEN [t |-> v.t, n |-> v.n, s |-> v.s, ents |-> <<>>]
  ELSE Let(h[v.n], LAMBDA c :
       [t |-> c.k, n |-> 0, s |-> <<>>,
           ents |-> [i \in 1..Len(c.ents) |->
                       [key |-> c.ents[i].key, val |-> Deep(h, c.ents[i].val)]]])

\* The cells reachable from a value.
RECURSIVE Reach(_, _)
Reach(h, v) ==
  IF v.t # "ref" THEN {}
  ELSE {v.n} \cup UNION {Reach(h, h[v.n].ents[i].val) : i \in 1..Len(h[v.n].ents)}

(***************************************************************************)
(* Heap primitives: array literals, push, property reads and writes.       *)
(***************************************************************************)
IsArray(h, v) == v.t = "ref" /\ h[v.n].k = "arr"
IsObject(h, v) == v.t = "ref" /\ h[v.n].k = "obj"

ArrEnts(vals) == [i \in 1..Len(vals) |-> [key |-> <<>>, val |-> vals[i]]]
NewArr(h, vals) ==
  [h |-> Append(h, [k |-> "arr", ents |-> ArrEnts(vals)]), v |-> Ref(Len(h) + 1)]
NewObj(h, ents) ==
  [h |-> Append(h, [k |-> "obj", ents |-> ents]), v |-> Ref(Len(h) + 1)]

Items(h, v) == [i \in 1..Len(h[v.n].ents) |-> h[v.n].ents[i].val]
Length(h, v) == Len(h[v.n].ents)
Push(h, a, vals) == [h EXCEPT ![a].ents = @ \o ArrEnts(vals)]

HasKey(ents, key) == \E i \in 1..Len(ents) : ents[i].key = key
Lookup(ents, key) ==
  IF HasKey(ents, key)
  THEN ents[CHOOSE i \in 1..Len(ents) : ents[i].key = key].val
  ELSE Undef
\* obj[key] for a value: undefined on a missing property or a scalar.
Get(h, v, key) == IF v.t = "ref" THEN Lookup(h[v.n].ents, key) ELSE Undef
Keys(ents) == [i \in 1..Len(ents) |-> ents[i].key]
\* The own properties of a value (none for a scalar).
EntsOf(h, v) == IF v.t = "ref" THEN h[v.n].ents ELSE <<>>

(***************************************************************************)
(* Reading trees.                                                          *)
(***************************************************************************)
TItems(tr) == [i \in 1..Len(tr.ents) |-> tr.ents[i].val]
THas(tr, key) == HasKey(tr.ents, key)
TGet(tr, key) ==
  IF HasKey(tr.ents, key)
  THEN tr.ents[CHOOSE i \in 1..Len(tr.ents) : tr.ents[i].key = key].val
  ELSE TUndef
\* The elements of xs at the positions I, in their order in xs.
SubseqAt(xs, I) ==
  Let(SelectSeq([i \in 1..Len(xs) |-> i], LAMBDA i : i \in I), LAMBDA kept :
  [k \in 1..Len(kept) |-> xs[kept[k]]])

\* Own property order of a JavaScript object: array-index keys first, in
\* ascending numeric order, then the other keys in insertion order.
MaxIndexKey == 30
IsIndexKey(key) == Len(key) = 1 /\ \E n \in 0..MaxIndexKey : ToString(n) = key[1]
IndexOf(key) == CHOOSE n \in 0..MaxIndexKey : ToString(n) = key[1]
InsertAt(ents, p, e) == SubSeq(ents, 1, p - 1) \o <<e>> \o SubSeq(ents, p, Len(ents))
PutProp(ents, key, val) ==
  IF HasKey(ents, key)
  THEN [i \in 1..Len(ents) |-> IF ents[i].key = key THEN [key |-> key, val |-> val] ELSE ents[i]]
  ELSE IF IsIndexKey(key)
  THEN Let({i \in 1..Len(ents) :
                       ~IsIndexKey(ents[i].key) \/ IndexOf(ents[i].key) > IndexOf(key)}, LAMBDA after :
       Let(IF after = {} THEN Len(ents) + 1
                ELSE CHOOSE i \in after : \A j \in after : i <= j, LAMBDA p :
       InsertAt(ents, p, [key |-> key, val |-> val])))
  ELSE Append(ents, [key |-> key, val |-> val])

RECURSIVE PutAll(_, _)
PutAll(ents, more) ==
  IF more = <<>> THEN ents
  ELSE PutAll(PutProp(ents, more[1].key, more[1].val), Tail(more))

\* { ...a } and [ ...a ]: a fresh cell holding the same values (a shallow copy).
\* Spreading null, undefined or a number into an object gives {}.
SpreadObj(h, v) == NewObj(h, IF v.t = "ref" THEN PutAll(<<>>, h[v.n].ents) ELSE <<>>)
SpreadArr(h, v) == NewArr(h, Items(h, v))

(***************************************************************************)
(* The builder.  An instance is its two private fields; a context carries  *)
(* the heap, the instance `this`, the exception raised so far (if any) and *)
(* the value returned by the last private helper.                          *)
(***************************************************************************)
DEFAULT_LIMIT == 15
DEFAULT_PAGE == 1

NoAlias == [limit |-> Null, offset |-> Null, perPage |-> Null, page |-> Null]
NoParams ==
  [includes |-> Undef, sort |-> Undef, filter_groups |-> Undef, limit |-> Undef,
   offset |-> Undef, perPage |-> Undef, page |-> Undef, optional |-> Undef]
\* new BrunoQuery()
NewBrunoQuery == [params |-> NoParams, alias |-> NoAlias]

Ctx(h, q) == [h |-> h, q |-> q, ex |-> "none", v |-> Undef]
Throw(c, e) == [c EXCEPT !.ex = e]
Failed(c) == c.ex # "none"

\* f(...v): an array spreads into its elements and a string into its characters
\* (here its tokens); nothing else the model holds can be spread.
Iterable(h, v) == IsArray(h, v) \/ v.t = "str"
Spread(h, v) == IF v.t = "str" THEN [i \in 1..Len(v.s) |-> Str(<<v.s[i]>>)] ELSE Items(h, v)

addArrayIncludes(c, includes) ==
  IF Failed(c) THEN c
  ELSE Let(NewArr(c.h, <<>>), LAMBDA a :
       Let(IF ~Truthy(c.q.params.includes)
                 THEN [c EXCEPT !.h = a.h, !.q.params.includes = a.v]
                 ELSE c, LAMBDA c1 :
       IF ~Iterable(c.h, includes) THEN Throw(c1, "TypeError")
          ELSE [c1 EXCEPT !.h = Push(c1.h, c1.q.params.includes.n, Spread(c1.h, includes))]))

setArrayIncludes(c, includes) ==
  IF Failed(c) THEN c
  ELSE Let(SpreadArr(c.h, includes), LAMBDA a :
       [c EXCEPT !.h = a.h, !.q.params.includes = a.v])

\* deduplicateSortLoop with push in place of unshift: the kept rules come out
\* in reverse order.
RECURSIVE deduplicateSortLoopPush(_, _, _, _, _)
deduplicateSortLoopPush(h, sortRules, i, seen, result) ==
  IF i = 0 THEN result
  ELSE Let(Get(h, sortRules[i], <<"key">>), LAMBDA key :
       IF key \in seen
          THEN deduplicateSortLoopPush(h, sortRules, i - 1, seen, result)
          ELSE deduplicateSortLoopPush(h, sortRules, i - 1, seen \cup {key},
                                       result \o <<sortRules[i]>>))

\* deduplicateSortLoop scanning from the first rule: the first rule of a key is kept.
RECURSIVE deduplicateSortLoopFirst(_, _, _, _, _)
deduplicateSortLoopFirst(h, sortRules, i, seen, result) ==
  IF i = 0 THEN result
  ELSE Let(sortRules[Len(sortRules) + 1 - i], LAMBDA r :
       Let(Get(h, r, <<"key">>), LAMBDA key :
       IF key \in seen
          THEN deduplicateSortLoopFirst(h, sortRules, i - 1, seen, result)
          ELSE deduplicateSortLoopFirst(h, sortRules, i - 1, seen \cup {key},
                                        result \o <<r>>)))

\* The loop of deduplicateSort: from the last rule to the first, a rule whose key
\* was not seen yet is put in front of the result.
RECURSIVE deduplicateSortLoop(_, _, _, _, _)
deduplicateSortLoop(h, sortRules, i, seen, result) ==
  IF i = 0 THEN result
  ELSE Let(Get(h, sortRules[i], <<"key">>), LAMBDA key :
       IF key \in seen
          THEN deduplicateSortLoop(h, sortRules, i - 1, seen, result)
          ELSE deduplicateSortLoop(h, sortRules, i - 1, seen \cup {key},
                                   <<sortRules[i]>> \o result))

deduplicateSort(c, sortRules) ==
  IF Failed(c) THEN c
  ELSE IF ~Truthy(sortRules) \/ Length(c.h, sortRules) = 0 THEN [c EXCEPT !.v = sortRules]
  ELSE IF \E i \in 1..Length(c.h, sortRules) : Items(c.h, sortRules)[i].t \in {"null", "undef"}
  THEN Throw(c, "TypeError")
  ELSE Let(Items(c.h, sortRules), LAMBDA rules :
       Let(NewArr(c.h, deduplicateSortLoop(c.h, rules, Len(rules), {}, <<>>)), LAMBDA a :
       [c EXCEPT !.h = a.h, !.v = a.v]))

addArraySort(c, sort) ==
  IF Failed(c) THEN c
  ELSE Let(NewArr(c.h, <<>>), LAMBDA a :
       Let(IF ~Truthy(c.q.params.sort)
                 THEN [c EXCEPT !.h = a.h, !.q.params.sort = a.v]
                 ELSE c, LAMBDA c1 :
       Let([c1 EXCEPT !.h = Push(c1.h, c1.q.params.sort.n, Spread(c1.h, sort))], LAMBDA c2 :
       Let(deduplicateSort(c2, c2.q.params.sort), LAMBDA d :
       IF ~Iterable(c.h, sort) THEN Throw(c1, "TypeError")
          ELSE IF Failed(d) THEN d ELSE [d EXCEPT !.q.params.sort = d.v]))))

setArraySort(c, sort) ==
  IF Failed(c) THEN c
  ELSE Let(SpreadArr(c.h, sort), LAMBDA a :
       Let(deduplicateSort([c EXCEPT !.h = a.h], a.v), LAMBDA d :
       IF Failed(d) THEN d ELSE [d EXCEPT !.q.params.sort = d.v]))

(***************************************************************************)
(* Strings out of values: String(v) and template literals, JSON.stringify. *)
(***************************************************************************)
RECURSIVE Concat(_)
Concat(ss) == IF ss = <<>> THEN <<>> ELSE ss[1] \o Concat(Tail(ss))
RECURSIVE Join(_, _)
Join(ss, sep) ==
  IF ss = <<>> THEN <<>>
  ELSE IF Len(ss) = 1 THEN ss[1]
  ELSE ss[1] \o sep \o Join(Tail(ss), sep)

NumStr(n) == IF n < 0 THEN <<"-", ToString(-n)>> ELSE <<ToString(n)>>

RECURSIVE ToStr(_, _)
ToStr(h, v) ==
  CASE v.t = "str" -> v.s
    [] v.t = "num" -> NumStr(v.n)
    [] v.t = "nan" -> <<"NaN">>
    [] v.t = "bool" -> IF v.n = 1 THEN <<"true">> ELSE <<"false">>
    [] v.t = "null" -> <<"null">>
    [] v.t = "undef" -> <<"undefined">>
    [] IsArray(h, v) ->
         Join([i \in 1..Length(h, v) |->
                 IF Items(h, v)[i].t \in {"null", "undef"} THEN <<>>
                 ELSE ToStr(h, Items(h, v)[i])], <<",">>)
    [] OTHER -> <<"[", "object", " ", "Object", "]">>

EscapeJSON(s) ==
  Concat([i \in 1..Len(s) |->
            IF s[i] \in {"\"", "\\"} THEN <<"\\", s[i]>> ELSE <<s[i]>>])
Quoted(s) == <<"\"">> \o EscapeJSON(s) \o <<"\"">>

\* JSON.stringify(v); <<"undefined">> stands for its result undefined, which is
\* what a template literal prints for it.
RECURSIVE JSONstringify(_, _)
JSONstringify(h, v) ==
  CASE v.t = "str" -> Quoted(v.s)
    [] v.t = "num" -> NumStr(v.n)
    [] v.t = "bool" -> IF v.n = 1 THEN <<"true">> ELSE <<"false">>
    [] v.t \in {"null", "nan"} -> <<"null">>
    [] v.t = "undef" -> <<"undefined">>
    [] IsArray(h, v) ->
         <<"[">>
         \o Join([i \in 1..Length(h, v) |->
                    IF Items(h, v)[i].t = "undef" THEN <<"null">>
                    ELSE JSONstringify(h, Items(h, v)[i])], <<",">>)
         \o <<"]">>
    [] OTHER ->
         Let(SelectSeq(h[v.n].ents, LAMBDA e : e.val.t # "undef"), LAMBDA ents :
         <<"{">>
            \o Join([i \in 1..Len(ents) |->
                       Quoted(ents[i].key) \o <<":">> \o JSONstringify(h, ents[i].val)],
                    <<",">>)
            \o <<"}">>)

(***************************************************************************)
(* Filter groups.                                                          *)
(***************************************************************************)
\* a ?? b
Coalesce(a, b) == IF a.t \in {"null", "undef"} THEN b ELSE a
\* a || b
OrElse(a, b) == IF Truthy(a) THEN a ELSE b
At(h, v, i) == IF i <= Length(h, v) THEN Items(h, v)[i] ELSE Undef

\* The not flag without `?? false`: an absent flag stays undefined.
FilterNotRaw(h, filter) ==
  IF IsArray(h, filter) THEN At(h, filter, 4) ELSE Get(h, filter, <<"not">>)

FilterNot(h, filter) ==
  IF IsArray(h, filter)
  THEN IF Length(h, filter) > 3 THEN Coalesce(At(h, filter, 4), False) ELSE False
  ELSE Coalesce(Get(h, filter, <<"not">>), False)
FilterKey(h, filter) ==
  IF IsArray(h, filter) THEN At(h, filter, 1) ELSE Get(h, filter, <<"key">>)
FilterOperator(h, filter) ==
  IF IsArray(h, filter) THEN At(h, filter, 2) ELSE Get(h, filter, <<"operator">>)
FilterValue(h, filter) ==
  IF IsArray(h, filter) THEN At(h, filter, 3) ELSE Get(h, filter, <<"value">>)

\* `${key}:${operator}:${JSON.stringify(value)}:${not}`
identifier(h, filter) ==
  ToStr(h, FilterKey(h, filter)) \o <<":">> \o ToStr(h, FilterOperator(h, filter))
  \o <<":">> \o JSONstringify(h, FilterValue(h, filter))
  \o <<":">> \o ToStr(h, FilterNot(h, filter))

\* The loop keeping the last filter of each identifier instead of the first.
deduplicateFiltersLoopLast(h, filters, i, seen, uniqueFilters) ==
  SubseqAt(filters, {j \in 1..Len(filters) :
                       \A k \in (j + 1)..Len(filters) :
                          identifier(h, filters[k]) # identifier(h, filters[j])})

RECURSIVE deduplicateFiltersLoop(_, _, _, _, _)
deduplicateFiltersLoop(h, filters, i, seen, uniqueFilters) ==
  IF i > Len(filters) THEN uniqueFilters
  ELSE Let(identifier(h, filters[i]), LAMBDA id :
       IF id \in seen
          THEN deduplicateFiltersLoop(h, filters, i + 1, seen, uniqueFilters)
          ELSE deduplicateFiltersLoop(h, filters, i + 1, seen \cup {id},
                                      Append(uniqueFilters, filters[i])))

deduplicateFilters(c, group) ==
  IF Failed(c) THEN c
  ELSE IF group.t \in {"null", "undef"} THEN Throw(c, "TypeError")
  ELSE Let(Get(c.h, group, <<"filters">>), LAMBDA filters :
       IF ~Truthy(filters) \/ (IsArray(c.h, filters) /\ Length(c.h, filters) = 0)
          THEN [c EXCEPT !.v = group]
          ELSE IF ~IsArray(c.h, filters) THEN Throw(c, "TypeError")
          ELSE IF \E i \in 1..Length(c.h, filters) :
                     Items(c.h, filters)[i].t \in {"null", "undef"}
          THEN Throw(c, "TypeError")
          ELSE Let(NewArr(c.h, deduplicateFiltersLoop(c.h, Items(c.h, filters), 1, {}, <<>>)), LAMBDA a :
               Let(NewObj(a.h, <<[key |-> <<"or">>, val |-> OrElse(Get(c.h, group, <<"or">>), False)],
                                      [key |-> <<"filters">>, val |-> a.v]>>), LAMBDA o :
               [c EXCEPT !.h = o.h, !.v = o.v])))

\* groups.map((group) => this.deduplicateFilters(group)): the context after the
\* calls, with the mapped values in vs.
RECURSIVE mapDeduplicateFilters(_, _, _)
mapDeduplicateFilters(c, groups, vs) ==
  IF Failed(c) \/ Len(vs) = Len(groups) THEN [c |-> c, vs |-> vs]
  ELSE Let(deduplicateFilters(c, groups[Len(vs) + 1]), LAMBDA d :
       mapDeduplicateFilters(d, groups, Append(vs, d.v)))

addArrayFilterGroup(c, groups) ==
  IF Failed(c) THEN c
  ELSE Let(NewArr(c.h, <<>>), LAMBDA a :
       Let(IF ~Truthy(c.q.params.filter_groups)
                 THEN [c EXCEPT !.h = a.h, !.q.params.filter_groups = a.v]
                 ELSE c, LAMBDA c1 :
       Let(mapDeduplicateFilters(c1, Items(c1.h, groups), <<>>), LAMBDA m :
       IF ~IsArray(c.h, groups) THEN Throw(c1, "TypeError")
          ELSE IF Failed(m.c) THEN m.c
          ELSE [m.c EXCEPT !.h = Push(m.c.h, c1.q.params.filter_groups.n, m.vs)])))

setArrayFilterGroup(c, groups) ==
  IF Failed(c) THEN c
  ELSE IF ~IsArray(c.h, groups) THEN Throw(c, "TypeError")
  ELSE Let(mapDeduplicateFilters(c, Items(c.h, groups), <<>>), LAMBDA m :
       Let(NewArr(m.c.h, m.vs), LAMBDA a :
       IF Failed(m.c) THEN m.c
          ELSE [m.c EXCEPT !.h = a.h, !.q.params.filter_groups = a.v]))

(***************************************************************************)
(* Pagination, optional parameters, reset.                                 *)
(***************************************************************************)
Negative(v) == v.t = "num" /\ v.n < 0

\* The setters forgetting the alias key when the value is removed with null.
setPaginationForgetful(c, f, dflt, value, alias) ==
  IF Failed(c) THEN c
  ELSE IF value.t = "null" THEN [c EXCEPT !.q.params[f] = Undef, !.q.alias[f] = Null]
  ELSE Let([c EXCEPT !.q.params[f] = IF Negative(value) THEN Num(dflt) ELSE value], LAMBDA c1 :
       IF Truthy(alias) THEN [c1 EXCEPT !.q.alias[f] = alias] ELSE c1)

\* setLimit, setOffset, setPerPage and setPage: the same body on field f, with
\* the default dflt for a negative number.
setPagination(c, f, dflt, value, alias) ==
  IF Failed(c) THEN c
  ELSE IF value.t = "null" THEN [c EXCEPT !.q.params[f] = Undef]
  ELSE Let([c EXCEPT !.q.params[f] = IF Negative(value) THEN Num(dflt) ELSE value], LAMBDA c1 :
       IF Truthy(alias) THEN [c1 EXCEPT !.q.alias[f] = alias] ELSE c1)

setLimit(c, limit, alias) == setPagination(c, "limit", DEFAULT_LIMIT, limit, alias)
setOffset(c, offset, alias) == setPagination(c, "offset", DEFAULT_PAGE, offset, alias)
setPerPage(c, perPage, alias) == setPagination(c, "perPage", DEFAULT_LIMIT, perPage, alias)
setPage(c, page, alias) == setPagination(c, "page", DEFAULT_PAGE, page, alias)

setOptional(c, optional) ==
  IF Failed(c) THEN c ELSE [c EXCEPT !.q.params.optional = optional]

addOptional(c, optional) ==
  Let(c.q.params.optional, LAMBDA cur :
  IF Failed(c) THEN c
     ELSE IF ~Truthy(cur) THEN [c EXCEPT !.q.params.optional = optional]
     ELSE IF IsArray(c.h, cur) /\ IsArray(c.h, optional)
     THEN [c EXCEPT !.h = Push(c.h, cur.n, Items(c.h, optional))]
     ELSE IF IsArray(c.h, cur)
     THEN [c EXCEPT !.h = Push(c.h, cur.n, <<optional>>)]
     ELSE IF IsArray(c.h, optional)
     THEN Let(NewArr(c.h, <<cur>> \o Items(c.h, optional)), LAMBDA a :
          [c EXCEPT !.h = a.h, !.q.params.optional = a.v])
     ELSE Let(NewObj(c.h, PutAll(PutAll(<<>>, EntsOf(c.h, cur)), EntsOf(c.h, optional))), LAMBDA o :
     [c EXCEPT !.h = o.h, !.q.params.optional = o.v]))

\* reset clearing the parameters only: the alias keys stay.
resetParams(c) == IF Failed(c) THEN c ELSE [c EXCEPT !.q.params = NoParams]

reset(c) == IF Failed(c) THEN c ELSE [c EXCEPT !.q = NewBrunoQuery]

(***************************************************************************)
(* clone and toObject.                                                     *)
(***************************************************************************)
\* vals.map(x => Array.isArray(x) ? [...x] : { ...x }): a shallow copy of each.
RECURSIVE CopyEach(_, _, _)
CopyEach(h, vals, done) ==
  IF Len(done) = Len(vals) THEN [h |-> h, vs |-> done]
  ELSE Let(vals[Len(done) + 1], LAMBDA x :
       Let(IF IsArray(h, x) THEN SpreadArr(h, x) ELSE SpreadObj(h, x), LAMBDA r :
       CopyEach(r.h, vals, Append(done, r.v))))

\* The filter-group part of clone: for each group a new group object with a new
\* filters array of copied filters, deduplicated.
RECURSIVE cloneFilterGroups(_, _, _)
cloneFilterGroups(c, groups, vs) ==
  IF Failed(c) \/ Len(vs) = Len(groups) THEN [c |-> c, vs |-> vs]
  ELSE Let(groups[Len(vs) + 1], LAMBDA group :
       Let(Get(c.h, group, <<"filters">>), LAMBDA filters :
       Let(IF Truthy(filters) THEN CopyEach(c.h, Items(c.h, filters), <<>>)
                ELSE [h |-> c.h, vs |-> <<>>], LAMBDA m :
       Let(NewArr(m.h, m.vs), LAMBDA a :
       Let(NewObj(a.h, <<[key |-> <<"or">>, val |-> OrElse(Get(c.h, group, <<"or">>), False)],
                              [key |-> <<"filters">>, val |-> a.v]>>), LAMBDA o :
       Let(deduplicateFilters([c EXCEPT !.h = o.h], o.v), LAMBDA d :
       cloneFilterGroups(d, groups, Append(vs, d.v))))))))

\* The context after this.clone(): q is the new builder, this is c.q as before.
clone(c) ==
  Let(c.q.params, LAMBDA p :
  Let(IF Truthy(p.includes) THEN SpreadArr(c.h, p.includes) ELSE [h |-> c.h, v |-> Undef], LAMBDA inc :
  Let(IF Truthy(p.sort) THEN CopyEach(inc.h, Items(inc.h, p.sort), <<>>)
               ELSE [h |-> inc.h, vs |-> <<>>], LAMBDA rules :
  Let(NewArr(rules.h, rules.vs), LAMBDA rarr :
  Let(IF Truthy(p.sort) THEN deduplicateSort([c EXCEPT !.h = rarr.h], rarr.v)
             ELSE [c EXCEPT !.h = inc.h, !.v = Undef], LAMBDA srt :
  Let(IF Truthy(p.filter_groups)
             THEN cloneFilterGroups(srt, Items(srt.h, p.filter_groups), <<>>)
             ELSE [c |-> srt, vs |-> <<>>], LAMBDA grp :
  Let(IF Truthy(p.filter_groups) THEN NewArr(grp.c.h, grp.vs)
              ELSE [h |-> grp.c.h, v |-> Undef], LAMBDA garr :
  Let(IF Truthy(p.optional) /\ IsArray(garr.h, p.optional)
              THEN CopyEach(garr.h, Items(garr.h, p.optional), <<>>)
              ELSE [h |-> garr.h, vs |-> <<>>], LAMBDA opts :
  Let(IF ~Truthy(p.optional) THEN [h |-> garr.h, v |-> Undef]
             ELSE IF IsArray(garr.h, p.optional) THEN NewArr(opts.h, opts.vs)
             ELSE SpreadObj(garr.h, p.optional), LAMBDA opt :
  LET keep(v) == IF Truthy(v) THEN v ELSE Undef IN
  IF Failed(c) THEN c
     ELSE IF Failed(grp.c) THEN grp.c
     ELSE [h |-> opt.h, ex |-> "none", v |-> Undef,
           q |-> [params |-> [includes |-> inc.v, sort |-> srt.v, filter_groups |-> garr.v,
                              limit |-> keep(p.limit), offset |-> keep(p.offset),
                              perPage |-> keep(p.perPage), page |-> keep(p.page),
                              optional |-> opt.v],
                  alias |-> c.q.alias]])))))))))

\* The filter map leaving every filter in the form it was given.
normalizeFiltersKeepForm(h, filters, done) == [h |-> h, vs |-> filters]

\* The filter map of toObject: a shorthand becomes a new record, a record is itself.
RECURSIVE normalizeFilters(_, _, _)
normalizeFilters(h, filters, done) ==
  IF Len(done) = Len(filters) THEN [h |-> h, vs |-> done]
  ELSE Let(filters[Len(done) + 1], LAMBDA f :
       Let(NewObj(h, <<[key |-> <<"key">>, val |-> At(h, f, 1)],
                            [key |-> <<"operator">>, val |-> At(h, f, 2)],
                            [key |-> <<"value">>, val |-> At(h, f, 3)]>>
                          \o IF Length(h, f) > 3
                             THEN <<[key |-> <<"not">>, val |-> At(h, f, 4)]>>
                             ELSE <<>>), LAMBDA o :
       IF IsArray(h, f) THEN normalizeFilters(o.h, filters, Append(done, o.v))
          ELSE normalizeFilters(h, filters, Append(done, f))))

RECURSIVE normalizeFilterGroups(_, _, _)
normalizeFilterGroups(c, groups, vs) ==
  IF Failed(c) \/ Len(vs) = Len(groups) THEN [c |-> c, vs |-> vs]
  ELSE Let(groups[Len(vs) + 1], LAMBDA group :
       Let(Get(c.h, group, <<"filters">>), LAMBDA filters :
       IF ~IsArray(c.h, filters) THEN [c |-> Throw(c, "TypeError"), vs |-> vs]
          ELSE Let(normalizeFilters(c.h, Items(c.h, filters), <<>>), LAMBDA m :
               Let(NewArr(m.h, m.vs), LAMBDA a :
               Let(NewObj(a.h, <<[key |-> <<"or">>, val |-> OrElse(Get(c.h, group, <<"or">>), False)],
                                      [key |-> <<"filters">>, val |-> a.v]>>), LAMBDA o :
               Let(deduplicateFilters([c EXCEPT !.h = o.h], o.v), LAMBDA d :
               normalizeFilterGroups(d, groups, Append(vs, d.v))))))))

\* res[alias] = value or res.<f> = value, when the value is truthy.
PutPagination(ents, q, f) ==
  IF ~Truthy(q.params[f]) THEN ents
  ELSE IF Truthy(q.alias[f]) THEN PutProp(ents, q.alias[f].s, q.params[f])
  ELSE PutProp(ents, <<f>>, q.params[f])

\* this.toObject(): the context whose v is the object returned.
toObject(c) ==
  Let(c.q.params, LAMBDA p :
  Let(IF Truthy(p.includes) THEN SpreadArr(c.h, p.includes) ELSE [h |-> c.h, v |-> Undef], LAMBDA inc :
  Let(IF Truthy(p.includes) THEN <<[key |-> <<"includes">>, val |-> inc.v]>> ELSE <<>>, LAMBDA e1 :
  Let(IF Truthy(p.sort) THEN SpreadArr(inc.h, p.sort) ELSE [h |-> inc.h, v |-> Undef], LAMBDA scp :
  Let(deduplicateSort([c EXCEPT !.h = scp.h], scp.v), LAMBDA srt :
  Let(IF Truthy(p.sort) THEN PutProp(e1, <<"sort">>, srt.v) ELSE e1, LAMBDA e2 :
  Let(IF Truthy(p.filter_groups)
             THEN normalizeFilterGroups(srt, Items(srt.h, p.filter_groups), <<>>)
             ELSE [c |-> srt, vs |-> <<>>], LAMBDA grp :
  Let(NewArr(grp.c.h, grp.vs), LAMBDA garr :
  Let(IF Truthy(p.filter_groups) THEN PutProp(e2, <<"filter_groups">>, garr.v) ELSE e2, LAMBDA e3 :
  Let(PutPagination(e3, c.q, "limit"), LAMBDA e4 :
  Let(PutPagination(e4, c.q, "offset"), LAMBDA e5 :
  Let(PutPagination(e5, c.q, "perPage"), LAMBDA e6 :
  Let(PutPagination(e6, c.q, "page"), LAMBDA e7 :
  Let(IF Truthy(p.optional) THEN PutProp(e7, <<"optional">>, p.optional) ELSE e7, LAMBDA e8 :
  Let(NewObj(garr.h, e8), LAMBDA res :
  IF Failed(c) THEN c
     ELSE IF Failed(srt) THEN srt
     ELSE IF Failed(grp.c) THEN grp.c
     ELSE [c EXCEPT !.h = res.h, !.v = res.v])))))))))))))))

(***************************************************************************)
(* Encoding to a query string.                                             *)
(***************************************************************************)
\* The reserved characters of the model and their percent escapes.
PercentCode ==
  [ch \in {" ", "[", "]", "&", "=", "+", "%", ":", ",", "?", "\"", "{", "}", "\\", "("} |->
     CASE ch = " " -> "%20" [] ch = "[" -> "%5B" [] ch = "]" -> "%5D" [] ch = "&" -> "%26"
       [] ch = "=" -> "%3D" [] ch = "+" -> "%2B" [] ch = "%" -> "%25" [] ch = ":" -> "%3A"
       [] ch = "," -> "%2C" [] ch = "?" -> "%3F" [] ch = "\"" -> "%22" [] ch = "{" -> "%7B"
       [] ch = "}" -> "%7D" [] ch = "\\" -> "%5C" [] ch = "(" -> "%28"]
Reserved == DOMAIN PercentCode
\* encodeURIComponent leaves ( and the other marks - _ . ! ~ * ' ) as they are.
encodeURIComponent(s) ==
  [i \in 1..Len(s) |-> IF s[i] \in Reserved \ {"("} THEN PercentCode[s[i]] ELSE s[i]]
Idx(i) == <<"[", ToString(i), "]">>
Br(s) == <<"[">> \o s \o <<"]">>

handleIncludes(h, q) ==
  IF ~Truthy(q.params.includes) \/ Length(h, q.params.includes) = 0 THEN <<>>
  ELSE [i \in 1..Length(h, q.params.includes) |->
          <<"includes", "[", "]", "=">>
          \o encodeURIComponent(ToStr(h, Items(h, q.params.includes)[i]))]

handleSort(h, q) ==
  IF ~Truthy(q.params.sort) \/ Length(h, q.params.sort) = 0 THEN <<>>
  ELSE Concat([i \in 1..Length(h, q.params.sort) |->
         Let(Items(h, q.params.sort)[i], LAMBDA sortRule :
         << <<"sort">> \o Idx(i - 1) \o <<"[", "key", "]", "=">>
                 \o encodeURIComponent(ToStr(h, Get(h, sortRule, <<"key">>))),
               <<"sort">> \o Idx(i - 1) \o <<"[", "direction", "]", "=">>
                 \o ToStr(h, Get(h, sortRule, <<"direction">>)) >>)])

\* handleLimitPage emitting every value that is not undefined.
handleLimitPageDefined(h, q) ==
  Concat([i \in 1..4 |->
    Let(<<"limit", "offset", "perPage", "page">>[i], LAMBDA f :
    IF q.params[f].t = "undef" THEN <<>>
       ELSE << ToStr(h, OrElse(q.alias[f], Str(<<f>>))) \o <<"=">> \o ToStr(h, q.params[f]) >>)])

handleLimitPage(h, q) ==
  Concat([i \in 1..4 |->
    Let(<<"limit", "offset", "perPage", "page">>[i], LAMBDA f :
    IF ~Truthy(q.params[f]) THEN <<>>
       ELSE << ToStr(h, OrElse(q.alias[f], Str(<<f>>))) \o <<"=">> \o ToStr(h, q.params[f]) >>)])

\* The parts handleValue pushes for one key and value.
handleValue(h, keyName, value) ==
  IF IsArray(h, value)
  THEN [i \in 1..Length(h, value) |->
          keyName \o <<"[", "]", "=">> \o encodeURIComponent(ToStr(h, Items(h, value)[i]))]
  ELSE IF value.t = "null" THEN << keyName \o <<"=", "null">> >>
  ELSE IF value.t = "bool" THEN << keyName \o <<"=">> \o ToStr(h, value) >>
  ELSE << keyName \o <<"=">> \o encodeURIComponent(ToStr(h, value)) >>

\* The own properties handleParseFilter gives for a filter, in their order.
handleParseFilter(h, filter) ==
  IF IsArray(h, filter)
  THEN <<[key |-> <<"key">>, val |-> At(h, filter, 1)],
         [key |-> <<"operator">>, val |-> At(h, filter, 2)],
         [key |-> <<"value">>, val |-> At(h, filter, 3)]>>
       \o IF Length(h, filter) > 3 THEN <<[key |-> <<"not">>, val |-> At(h, filter, 4)]>>
          ELSE <<>>
  ELSE EntsOf(h, filter)

handleFilters(h, group, groupIndex) ==
  Let(OrElse(Get(h, group, <<"filters">>), Undef), LAMBDA filters :
  Let(IF IsArray(h, filters) THEN Length(h, filters) ELSE 0, LAMBDA n :
  Concat([i \in 1..n |->
       Let(<<"filter_groups">> \o Idx(groupIndex) \o <<"[", "filters", "]">> \o Idx(i - 1), LAMBDA prefix :
       Let(handleParseFilter(h, Items(h, filters)[i]), LAMBDA parsedFilter :
       Concat([k \in 1..Len(parsedFilter) |->
            handleValue(h, prefix \o Br(parsedFilter[k].key), parsedFilter[k].val)])))])))

handleFilterGroups(h, q) ==
  IF ~Truthy(q.params.filter_groups) \/ Length(h, q.params.filter_groups) = 0 THEN <<>>
  ELSE Concat([g \in 1..Length(h, q.params.filter_groups) |->
         Let(Items(h, q.params.filter_groups)[g], LAMBDA group :
         (IF Truthy(Get(h, group, <<"or">>))
             THEN << <<"filter_groups">> \o Idx(g - 1) \o <<"[", "or", "]", "=", "true">> >>
             ELSE <<>>)
            \o handleFilters(h, group, g - 1))])

handleOptionalObject(h, optionalObj) ==
  Let(EntsOf(h, optionalObj), LAMBDA ents :
  Concat([k \in 1..Len(ents) |->
       IF IsObject(h, ents[k].val)
       THEN Let(EntsOf(h, ents[k].val), LAMBDA nested :
            Concat([j \in 1..Len(nested) |->
                 handleValue(h, ents[k].key \o Br(nested[j].key), nested[j].val)]))
       ELSE handleValue(h, ents[k].key, ents[k].val)]))

handleOptional(h, q) ==
  IF ~Truthy(q.params.optional) THEN <<>>
  ELSE IF IsArray(h, q.params.optional)
  THEN Concat([i \in 1..Length(h, q.params.optional) |->
                 handleOptionalObject(h, Items(h, q.params.optional)[i])])
  ELSE handleOptionalObject(h, q.params.optional)

\* toQueryString with the pagination segments ahead of the filter groups.
toQueryStringLimitFirst(c) ==
  IF Failed(c) THEN c
  ELSE [c EXCEPT !.v = Str(Join(handleIncludes(c.h, c.q) \o handleSort(c.h, c.q)
                                \o handleLimitPage(c.h, c.q) \o handleFilterGroups(c.h, c.q)
                                \o handleOptional(c.h, c.q), <<"&">>))]
\* this.toQueryString(); the text is c.v.s.
toQueryString(c) ==
  IF Failed(c) THEN c
  ELSE [c EXCEPT !.v = Str(Join(handleIncludes(c.h, c.q) \o handleSort(c.h, c.q)
                                \o handleFilterGroups(c.h, c.q) \o handleLimitPage(c.h, c.q)
                                \o handleOptional(c.h, c.q), <<"&">>))]

(***************************************************************************)
(* Decoding a query string: text utilities and URLSearchParams.            *)
(***************************************************************************)
Numerals == {ToString(n) : n \in 0..MaxIndexKey}
IsNumeral(tok) == tok \in Numerals
NumeralValue(tok) == CHOOSE n \in 0..MaxIndexKey : ToString(n) = tok

Positions(s, tok) == {i \in 1..Len(s) : s[i] = tok}
\* The elements of a set of numbers in ascending order.
Ascending(S) == [k \in 1..Cardinality(S) |-> CHOOSE n \in S : Cardinality({m \in S : m <= n}) = k]
\* s.indexOf(tok), counted from 1; 0 when tok is not in s.
Find(s, tok) ==
  IF Positions(s, tok) = {} THEN 0
  ELSE CHOOSE i \in Positions(s, tok) : \A j \in Positions(s, tok) : i <= j
\* s.split(sep) for a one-character separator.
Split(s, sep) ==
  Let(<<0>> \o Ascending(Positions(s, sep)) \o <<Len(s) + 1>>, LAMBDA cuts :
  [k \in 1..(Len(cuts) - 1) |-> SubSeq(s, cuts[k] + 1, cuts[k + 1] - 1)])
\* path.split("][")
FindPair(s) == IF \E i \in 1..(Len(s) - 1) : s[i] = "]" /\ s[i + 1] = "["
               THEN CHOOSE i \in 1..(Len(s) - 1) :
                      /\ s[i] = "]" /\ s[i + 1] = "["
                      /\ \A j \in 1..(i - 1) : ~(s[j] = "]" /\ s[j + 1] = "[")
               ELSE 0
RECURSIVE SplitPair(_)
SplitPair(s) ==
  IF FindPair(s) = 0 THEN <<s>>
  ELSE <<SubSeq(s, 1, FindPair(s) - 1)>> \o SplitPair(SubSeq(s, FindPair(s) + 2, Len(s)))

IsEscape(tok) == \E ch \in Reserved : PercentCode[ch] = tok
Unescape(tok) == IF IsEscape(tok) THEN CHOOSE ch \in Reserved : PercentCode[ch] = tok ELSE tok
\* decodeURIComponent: escapes become their characters, a plus sign stays.
decodeURIComponent(s) == [i \in 1..Len(s) |-> Unescape(s[i])]
\* The decoding of the URLSearchParams parser: a plus sign is a space.
FormDecode(s) == [i \in 1..Len(s) |-> IF s[i] = "+" THEN " " ELSE Unescape(s[i])]
\* The encoding of URLSearchParams.toString(): a space is a plus sign.
FormEncode(s) ==
  [i \in 1..Len(s) |-> IF s[i] = " " THEN "+"
                       ELSE IF s[i] \in Reserved THEN PercentCode[s[i]] ELSE s[i]]

\* new URLSearchParams(text): the list of (name, value) pairs.
URLSearchParams(text) ==
  Let(SelectSeq(Split(text, "&"), LAMBDA piece : piece # <<>>), LAMBDA pieces :
  [i \in 1..Len(pieces) |->
        Let(Find(pieces[i], "="), LAMBDA p :
        IF p = 0 THEN [name |-> FormDecode(pieces[i]), value |-> <<>>]
           ELSE [name |-> FormDecode(SubSeq(pieces[i], 1, p - 1)),
                 value |-> FormDecode(SubSeq(pieces[i], p + 1, Len(pieces[i])))])])
ParamsGetAll(params, name) ==
  Let(SelectSeq(params, LAMBDA pr : pr.name = name), LAMBDA hits :
  [i \in 1..Len(hits) |-> Str(hits[i].value)])
ParamsGet(params, name) ==
  IF ParamsGetAll(params, name) = <<>> THEN Null ELSE ParamsGetAll(params, name)[1]
ParamsToString(params) ==
  Join([i \in 1..Len(params) |->
          FormEncode(params[i].name) \o <<"=">> \o FormEncode(params[i].value)], <<"&">>)
\* params.toString().split("&") and, of each entry, entry.split("=") decoded with
\* decodeURIComponent.
ParamArray(params) ==
  Let(SelectSeq(Split(ParamsToString(params), "&"), LAMBDA e : e # <<>>), LAMBDA entries :
  [i \in 1..Len(entries) |->
        Let(Split(entries[i], "="), LAMBDA kv :
        [key |-> decodeURIComponent(kv[1]),
            value |-> decodeURIComponent(IF Len(kv) > 1 THEN kv[2] ELSE <<>>)])])

\* parseInt(s, 10) and parseFloat(s) on the numbers of the model: blanks, a sign,
\* then digits; what follows the digits is ignored.
RECURSIVE SkipBlanks(_)
SkipBlanks(s) == IF s # <<>> /\ s[1] = " " THEN SkipBlanks(Tail(s)) ELSE s
parseInt(s) ==
  Let(SkipBlanks(s), LAMBDA t :
  IF t # <<>> /\ IsNumeral(t[1]) THEN Num(NumeralValue(t[1]))
     ELSE IF Len(t) > 1 /\ t[1] = "-" /\ IsNumeral(t[2]) THEN Num(0 - NumeralValue(t[2]))
     ELSE NaN)

\* The numbers of the model have no fraction and no exponent.
parseFloat(s) == parseInt(s)

parseValue(value) ==
  IF value.t = "null" \/ value = Str(<<"null">>) THEN Null
  ELSE IF value = Str(<<"true">>) THEN True
  ELSE IF value = Str(<<"false">>) THEN False
  ELSE IF value.t = "str" /\ parseFloat(value.s).t = "num" THEN parseFloat(value.s)
  ELSE value

\* The names every object inherits from Object.prototype: reading one of them
\* from an object that has no such own property gives a function (or, for
\* __proto__, the prototype), which is truthy and has no push.
ObjectPrototypeKeys ==
  {"constructor", "toString", "valueOf", "hasOwnProperty", "isPrototypeOf",
   "propertyIsEnumerable", "toLocaleString", "__proto__"}
Inherited(key) == Len(key) = 1 /\ key[1] \in ObjectPrototypeKeys

QueryOperators == {"ct", "sw", "ew", "eq", "gt", "gte", "lt", "lte", "in", "bt"}
\* operatorMap is an object literal: operatorMap[operator] finds the ten own
\* properties and, for a name of Object.prototype, the inherited member, which
\* is truthy and so is what `operatorMap[operator] || QueryOperator.equals` gives.
parseOperator(operator) ==
  IF ~Truthy(operator) THEN Str(<<"eq">>)
  ELSE IF Len(operator.s) = 1 /\ operator.s[1] \in QueryOperators THEN operator
  ELSE IF Inherited(operator.s) THEN Fn
  ELSE Str(<<"eq">>)

(***************************************************************************)
(* Decoding a query string: the parse steps of fromQueryString.            *)
(***************************************************************************)
\* Evaluating an array literal of fresh values in context c, then calling f on it.
WithNew(c, tr) == Let(Alloc(c.h, tr), LAMBDA a :
                  [c |-> [c EXCEPT !.h = a.h], v |-> a.v])

parseIncludes(c, params) ==
  Let(ParamsGetAll(params, <<"includes", "[", "]">>), LAMBDA includes :
  Let(WithNew(c, TArr([i \in 1..Len(includes) |-> TStr(includes[i].s)])), LAMBDA w :
  IF Failed(c) \/ Len(includes) = 0 THEN c ELSE addArrayIncludes(w.c, w.v)))

toUpperCase(s) ==
  [i \in 1..Len(s) |-> CASE s[i] \in {"asc", "Asc"} -> "ASC"
                         [] s[i] \in {"desc", "Desc"} -> "DESC"
                         [] OTHER -> s[i]]

\* The rules the loop of parseSort collects from index sortIndex on.
RECURSIVE parseSortLoop(_, _)
parseSortLoop(params, sortIndex) ==
  Let(ParamsGet(params, <<"sort">> \o Idx(sortIndex) \o <<"[", "key", "]">>), LAMBDA key :
  Let(ParamsGet(params, <<"sort">> \o Idx(sortIndex) \o <<"[", "direction", "]">>), LAMBDA direction :
  IF ~Truthy(key) \/ ~Truthy(direction) THEN <<>>
     ELSE <<TObj(<<<<<<"key">>, TStr(key.s)>>,
                   <<<<"direction">>,
                     TStr(IF toUpperCase(direction.s) = <<"ASC">> THEN <<"ASC">> ELSE <<"DESC">>)>>>>)>>
          \o parseSortLoop(params, sortIndex + 1)))

parseSort(c, params) ==
  Let(parseSortLoop(params, 0), LAMBDA sortRules :
  Let(WithNew(c, TArr(sortRules)), LAMBDA w :
  IF Failed(c) \/ Len(sortRules) = 0 THEN c ELSE addArraySort(w.c, w.v)))

parseLimitPage(c, params) ==
  Let(ParamsGet(params, <<"limit">>), LAMBDA limit :
  Let(ParamsGet(params, <<"offset">>), LAMBDA offset :
  Let(ParamsGet(params, <<"perPage">>), LAMBDA perPage :
  Let(ParamsGet(params, <<"page">>), LAMBDA page :
  Let(IF Truthy(limit) THEN setLimit(c, parseInt(limit.s), Undef) ELSE c, LAMBDA c1 :
  Let(IF Truthy(offset) THEN setOffset(c1, parseInt(offset.s), Undef) ELSE c1, LAMBDA c2 :
  Let(IF Truthy(perPage) THEN setPerPage(c2, parseInt(perPage.s), Undef) ELSE c2, LAMBDA c3 :
  IF Truthy(page) THEN setPage(c3, parseInt(page.s), Undef) ELSE c3)))))))

\* key.match(/^filter_groups\[(\d+)\]\[filters\]\[(\d+)\]\[([^\]]+)\]$/)
FilterKeyMatches(key) ==
  /\ Len(key) >= 13
  /\ SubSeq(key, 1, 2) = <<"filter_groups", "[">> /\ IsNumeral(key[3])
  /\ SubSeq(key, 4, 8) = <<"]", "[", "filters", "]", "[">> /\ IsNumeral(key[9])
  /\ SubSeq(key, 10, 11) = <<"]", "[">> /\ key[Len(key)] = "]"
  /\ \A i \in 12..(Len(key) - 1) : key[i] # "]"
FilterKeyGroup(key) == NumeralValue(key[3])
FilterKeyFilter(key) == NumeralValue(key[9])
FilterKeyProperty(key) == SubSeq(key, 12, Len(key) - 1)

\* groupMap[g][f][property] after the loop over paramArray: the value of the last
\* parameter that names it, undefined when none does.
GroupMapGet(paramArray, g, f, property) ==
  Let(SelectSeq(paramArray, LAMBDA pa :
                 /\ FilterKeyMatches(pa.key) /\ FilterKeyGroup(pa.key) = g
                 /\ FilterKeyFilter(pa.key) = f /\ FilterKeyProperty(pa.key) = property), LAMBDA hits :
  IF hits = <<>> THEN Undef ELSE Str(hits[Len(hits)].value))
GroupIndices(paramArray) ==
  {FilterKeyGroup(paramArray[i].key) : i \in {j \in 1..Len(paramArray) : FilterKeyMatches(paramArray[j].key)}}
FilterIndices(paramArray, g) ==
  {FilterKeyFilter(paramArray[i].key) :
     i \in {j \in 1..Len(paramArray) :
              FilterKeyMatches(paramArray[j].key) /\ FilterKeyGroup(paramArray[j].key) = g}}
TreeOf(v) == [t |-> v.t, n |-> v.n, s |-> v.s, ents |-> <<>>]
parseFilter(key, operator, value, not) ==
  TObj(<<<<<<"key">>, TreeOf(key)>>,
         <<<<"operator">>, TreeOf(parseOperator(operator))>>,
         <<<<"value">>, TreeOf(parseValue(value))>>>>
       \o IF not = Str(<<"true">>) THEN <<<<<<"not">>, TBool(TRUE)>>>> ELSE <<>>)

\* parseFilterGroups taking a bucket with a key for a filter, with or without operator.
parseFilterGroupsKeyOnly(c, params) ==
  Let(ParamArray(params), LAMBDA paramArray :
  LET validFilters(g) == Let(Ascending(FilterIndices(paramArray, g)), LAMBDA fs :
        Let(SelectSeq(fs, LAMBDA f :
                    Truthy(GroupMapGet(paramArray, g, f, <<"key">>))), LAMBDA ok :
        [k \in 1..Len(ok) |->
              parseFilter(GroupMapGet(paramArray, g, ok[k], <<"key">>),
                          GroupMapGet(paramArray, g, ok[k], <<"operator">>),
                          GroupMapGet(paramArray, g, ok[k], <<"value">>),
                          GroupMapGet(paramArray, g, ok[k], <<"not">>))])) IN
  Let(SelectSeq(Ascending(GroupIndices(paramArray)), LAMBDA g : Len(validFilters(g)) > 0), LAMBDA gs :
  Let([k \in 1..Len(gs) |->
           TObj(<<<<<<"or">>,
                    TBool(ParamsGet(params, <<"filter_groups">> \o Idx(gs[k]) \o <<"[", "or", "]">>)
                            = Str(<<"true">>))>>,
                  <<<<"filters">>, TArr(validFilters(gs[k]))>>>>)], LAMBDA filterGroups :
  Let(WithNew(c, TArr(filterGroups)), LAMBDA w :
  IF Failed(c) \/ Len(filterGroups) = 0 THEN c ELSE addArrayFilterGroup(w.c, w.v)))))

parseFilterGroups(c, params) ==
  Let(ParamArray(params), LAMBDA paramArray :
  LET validFilters(g) == Let(Ascending(FilterIndices(paramArray, g)), LAMBDA fs :
        Let(SelectSeq(fs, LAMBDA f :
                    /\ Truthy(GroupMapGet(paramArray, g, f, <<"key">>))
                    /\ Truthy(GroupMapGet(paramArray, g, f, <<"operator">>))), LAMBDA ok :
        [k \in 1..Len(ok) |->
              parseFilter(GroupMapGet(paramArray, g, ok[k], <<"key">>),
                          GroupMapGet(paramArray, g, ok[k], <<"operator">>),
                          GroupMapGet(paramArray, g, ok[k], <<"value">>),
                          GroupMapGet(paramArray, g, ok[k], <<"not">>))])) IN
  Let(SelectSeq(Ascending(GroupIndices(paramArray)), LAMBDA g : Len(validFilters(g)) > 0), LAMBDA gs :
  Let([k \in 1..Len(gs) |->
           TObj(<<<<<<"or">>,
                    TBool(ParamsGet(params, <<"filter_groups">> \o Idx(gs[k]) \o <<"[", "or", "]">>)
                            = Str(<<"true">>))>>,
                  <<<<"filters">>, TArr(validFilters(gs[k]))>>>>)], LAMBDA filterGroups :
  Let(WithNew(c, TArr(filterGroups)), LAMBDA w :
  IF Failed(c) \/ Len(filterGroups) = 0 THEN c ELSE addArrayFilterGroup(w.c, w.v)))))

knownPrefixes == {"includes", "sort", "limit", "offset", "perPage", "page", "filter_groups"}
RootOf(key) == Split(key, "[")[1]
IsKnownPrefix(prefix) == Len(prefix) = 1 /\ prefix[1] \in knownPrefixes

\* new RegExp(`^${rootKey}...`): the root key is put into the pattern as it is.
\* An unclosed group makes the pattern invalid; a root key without pattern
\* characters matches itself, one with a pattern character does not.
RegExpMeta == {"(", ")", "+", "?", "\\", "{", "}"}
Count(s, tok) == Cardinality({i \in 1..Len(s) : s[i] = tok})
RegExpInvalid(rootKey) == Count(rootKey, "(") # Count(rootKey, ")")
StartsWith(s, pre) == Len(s) >= Len(pre) /\ SubSeq(s, 1, Len(pre)) = pre
RootMatches(rootKey, key) ==
  (\A i \in 1..Len(rootKey) : rootKey[i] \notin RegExpMeta) /\ StartsWith(key, rootKey)
\* key.match(new RegExp(`^${rootKey}\\[\\d+\\]`))
IndexedMatch(rootKey, key) ==
  Let(Len(rootKey), LAMBDA r :
  /\ RootMatches(rootKey, key) /\ Len(key) >= r + 3
     /\ key[r + 1] = "[" /\ IsNumeral(key[r + 2]) /\ key[r + 3] = "]")
\* key.match(new RegExp(`^${rootKey}\\[(\\d+)\\]\\[([^\\]]+)\\]`))
IndexedNestedMatch(rootKey, key) ==
  Let(Len(rootKey), LAMBDA r :
  /\ IndexedMatch(rootKey, key) /\ Len(key) >= r + 6
     /\ key[r + 4] = "[" /\ key[r + 5] # "]"
     /\ \E i \in (r + 6)..Len(key) : key[i] = "]")
IndexedNestedKey(rootKey, key) ==
  Let(SubSeq(key, Len(rootKey) + 5, Len(key)), LAMBDA rest :
  SubSeq(rest, 1, Find(rest, "]") - 1))
\* key.match(new RegExp(`^${rootKey}\\[(.+)\\]$`))
NestedMatch(rootKey, key) ==
  Let(Len(rootKey), LAMBDA r :
  /\ RootMatches(rootKey, key) /\ Len(key) >= r + 3
     /\ key[r + 1] = "[" /\ key[Len(key)] = "]")
NestedPath(rootKey, key) == SubSeq(key, Len(rootKey) + 2, Len(key) - 1)

TPut(tr, key, val) == [tr EXCEPT !.ents = PutProp(tr.ents, key, val)]
\* setNestedValue on an object under construction.
RECURSIVE setNestedValue(_, _, _)
setNestedValue(obj, keys, value) ==
  IF Len(keys) = 1 THEN TPut(obj, keys[1], value)
  ELSE Let(TGet(obj, keys[1]), LAMBDA cur :
       Let(IF IsContainer(cur) THEN cur ELSE TObj(<<>>), LAMBDA sub :
       TPut(obj, keys[1], setNestedValue(sub, Tail(keys), value))))

\* indexMap after the loop over indexedKeys: per index, the properties set.
RECURSIVE IndexMapLoop(_, _, _, _)
IndexMapLoop(params, rootKey, indexedKeys, indexMap) ==
  IF indexedKeys = <<>> THEN indexMap
  ELSE Let(indexedKeys[1], LAMBDA key :
       Let(<<ToString(NumeralValue(key[Len(rootKey) + 2]))>>, LAMBDA index :
       Let(ParamsGet(params, key), LAMBDA value :
       Let(IF HasKey(indexMap, index) THEN Lookup(indexMap, index) ELSE TObj(<<>>), LAMBDA obj :
       Let(IF value.t = "null" THEN obj
                  ELSE TPut(obj, IndexedNestedKey(rootKey, key), TreeOf(parseValue(value))), LAMBDA set :
       IF IndexedNestedMatch(rootKey, key)
          THEN IndexMapLoop(params, rootKey, Tail(indexedKeys), PutProp(indexMap, index, set))
          ELSE IndexMapLoop(params, rootKey, Tail(indexedKeys), indexMap))))))

\* arrayObj after the loop over sortedIndices.
RECURSIVE ArrayObjLoop(_, _)
ArrayObjLoop(objs, arrayObj) ==
  IF objs = <<>> THEN arrayObj
  ELSE Let(objs[1], LAMBDA obj :
       IF Truthy(TGet(obj, <<"key">>)) /\ TGet(obj, <<"value">>).t # "undef"
          THEN ArrayObjLoop(Tail(objs),
                            TPut(arrayObj, ToStr(<<>>, TGet(obj, <<"key">>)), TGet(obj, <<"value">>)))
          ELSE ArrayObjLoop(Tail(objs), [arrayObj EXCEPT !.ents = PutAll(@, obj.ents)]))

\* rootObj after the loop over keys.
RECURSIVE RootObjLoop(_, _, _, _)
RootObjLoop(params, rootKey, keys, rootObj) ==
  IF keys = <<>> THEN rootObj
  ELSE Let(keys[1], LAMBDA key :
       Let(ParamsGet(params, key), LAMBDA value :
       IF NestedMatch(rootKey, key) /\ value.t # "null"
          THEN RootObjLoop(params, rootKey, Tail(keys),
                           setNestedValue(rootObj, SplitPair(NestedPath(rootKey, key)),
                                          TreeOf(parseValue(value))))
          ELSE RootObjLoop(params, rootKey, Tail(keys), rootObj)))

\* The loop over Object.keys(keyGroups): acc holds optionalParams, optionalArray
\* and the exception a pattern raised.
RECURSIVE RootKeysLoop(_, _, _, _)
RootKeysLoop(params, optionalKeys, rootKeys, acc) ==
  IF rootKeys = <<>> \/ acc.ex # "none" THEN acc
  ELSE Let(rootKeys[1], LAMBDA rootKey :
       Let(SelectSeq(optionalKeys, LAMBDA key : RootOf(key) = rootKey), LAMBDA keys :
       Let(SelectSeq(keys, LAMBDA key : key = rootKey), LAMBDA simpleKeys :
       Let(ParamsGet(params, rootKey), LAMBDA value :
       Let(SelectSeq(keys, LAMBDA key : IndexedMatch(rootKey, key)), LAMBDA indexedKeys :
       Let(IndexMapLoop(params, rootKey, indexedKeys, <<>>), LAMBDA indexMap :
       Let(ArrayObjLoop([i \in 1..Len(indexMap) |-> indexMap[i].val], TObj(<<>>)), LAMBDA arrayObj :
       Let(RootObjLoop(params, rootKey, keys, TObj(<<>>)), LAMBDA rootObj :
       Let(IF Len(simpleKeys) > 0
             THEN IF value.t = "null" THEN acc
                  ELSE [acc EXCEPT !.optionalParams = TPut(@, rootKey, TreeOf(parseValue(value)))]
             ELSE IF RegExpInvalid(rootKey) THEN [acc EXCEPT !.ex = "SyntaxError"]
             ELSE IF Len(indexedKeys) > 0
             THEN IF Len(arrayObj.ents) > 0
                  THEN [acc EXCEPT !.optionalArray = Append(@, TObj(<<<<rootKey, arrayObj>>>>))]
                  ELSE acc
             ELSE IF Len(rootObj.ents) > 0
                  THEN [acc EXCEPT !.optionalParams = TPut(@, rootKey, rootObj)]
                  ELSE acc, LAMBDA next :
       RootKeysLoop(params, optionalKeys, Tail(rootKeys), next))))))))))

\* Object.keys(keyGroups): the root keys in property order.
RECURSIVE KeyGroupsLoop(_, _)
KeyGroupsLoop(optionalKeys, keyGroups) ==
  IF optionalKeys = <<>> THEN keyGroups
  ELSE KeyGroupsLoop(Tail(optionalKeys), PutProp(keyGroups, RootOf(optionalKeys[1]), Undef))

parseOptional(c, params) ==
  Let(ParamArray(params), LAMBDA paramArray :
  Let(SelectSeq([i \in 1..Len(paramArray) |-> paramArray[i].key],
                                LAMBDA key : ~IsKnownPrefix(RootOf(key))), LAMBDA optionalKeys :
  Let(Keys(KeyGroupsLoop(optionalKeys, <<>>)), LAMBDA rootKeys :
  Let(RootKeysLoop(params, optionalKeys, rootKeys,
                          [optionalParams |-> TObj(<<>>), optionalArray |-> <<>>, ex |-> "none"]), LAMBDA acc :
  Let(WithNew(c, TArr(acc.optionalArray)), LAMBDA arr :
  Let(WithNew(c, acc.optionalParams), LAMBDA obj :
  IF Failed(c) THEN c
     ELSE IF \E i \in 1..Len(optionalKeys) : Inherited(RootOf(optionalKeys[i]))
     THEN Throw(c, "TypeError")
     ELSE IF acc.ex # "none" THEN Throw(c, acc.ex)
     ELSE IF Len(acc.optionalArray) > 0 THEN setOptional(arr.c, arr.v)
     ELSE IF Len(acc.optionalParams.ents) > 0 THEN setOptional(obj.c, obj.v)
     ELSE c))))))

\* BrunoQuery.fromQueryString(queryString) evaluated in heap h: q is the new builder.
fromQueryString(h, queryString) ==
  Let(reset(Ctx(h, NewBrunoQuery)), LAMBDA instance :
  Let(IF queryString # <<>> /\ queryString[1] = "?" THEN Tail(queryString)
                    ELSE queryString, LAMBDA cleanQuery :
  Let(URLSearchParams(cleanQuery), LAMBDA params :
  IF cleanQuery = <<>> THEN instance
     ELSE parseOptional(parseFilterGroups(parseLimitPage(parseSort(parseIncludes(instance, params),
                                                                   params), params), params), params))))

(***************************************************************************)
(* JSON.parse on token texts, and fromJSON.                                *)
(***************************************************************************)
NoParse == [ok |-> FALSE, v |-> TUndef, rest |-> <<>>]
Parsed(v, rest) == [ok |-> TRUE, v |-> v, rest |-> rest]

\* The characters of a string literal after its opening quote.
RECURSIVE JSONChars(_, _)
JSONChars(s, acc) ==
  IF s = <<>> THEN NoParse
  ELSE IF s[1] = "\"" THEN Parsed(TStr(acc), Tail(s))
  ELSE IF s[1] = "\\"
  THEN IF Len(s) > 1 /\ s[2] \in {"\"", "\\"} THEN JSONChars(SubSeq(s, 3, Len(s)), Append(acc, s[2]))
       ELSE NoParse
  ELSE JSONChars(Tail(s), Append(acc, s[1]))

RECURSIVE JSONValue(_)
RECURSIVE JSONElements(_, _)
RECURSIVE JSONMembers(_, _)
JSONValue(s0) ==
  Let(SkipBlanks(s0), LAMBDA s :
  IF s = <<>> THEN NoParse
     ELSE IF s[1] = "null" THEN Parsed(TNull, Tail(s))
     ELSE IF s[1] = "true" THEN Parsed(TBool(TRUE), Tail(s))
     ELSE IF s[1] = "false" THEN Parsed(TBool(FALSE), Tail(s))
     ELSE IF IsNumeral(s[1]) THEN Parsed(TNum(NumeralValue(s[1])), Tail(s))
     ELSE IF s[1] = "-" /\ Len(s) > 1 /\ IsNumeral(s[2])
     THEN Parsed(TNum(0 - NumeralValue(s[2])), SubSeq(s, 3, Len(s)))
     ELSE IF s[1] = "\"" THEN JSONChars(Tail(s), <<>>)
     ELSE IF s[1] = "["
     THEN IF SkipBlanks(Tail(s)) # <<>> /\ SkipBlanks(Tail(s))[1] = "]"
          THEN Parsed(TArr(<<>>), Tail(SkipBlanks(Tail(s))))
          ELSE JSONElements(Tail(s), <<>>)
     ELSE IF s[1] = "{"
     THEN IF SkipBlanks(Tail(s)) # <<>> /\ SkipBlanks(Tail(s))[1] = "}"
          THEN Parsed(TObj(<<>>), Tail(SkipBlanks(Tail(s))))
          ELSE JSONMembers(Tail(s), TObj(<<>>))
     ELSE NoParse)
\* element ("," element)* "]"
JSONElements(s, acc) ==
  Let(JSONValue(s), LAMBDA e :
  Let(SkipBlanks(e.rest), LAMBDA r :
  IF ~e.ok \/ r = <<>> THEN NoParse
     ELSE IF r[1] = "]" THEN Parsed(TArr(Append(acc, e.v)), Tail(r))
     ELSE IF r[1] = "," THEN JSONElements(Tail(r), Append(acc, e.v))
     ELSE NoParse))
\* string ":" value ("," string ":" value)* "}"
JSONMembers(s0, acc) ==
  Let(SkipBlanks(s0), LAMBDA s :
  Let(IF s # <<>> /\ s[1] = "\"" THEN JSONChars(Tail(s), <<>>) ELSE NoParse, LAMBDA k :
  Let(SkipBlanks(k.rest), LAMBDA c :
  Let(IF k.ok /\ c # <<>> /\ c[1] = ":" THEN JSONValue(Tail(c)) ELSE NoParse, LAMBDA e :
  Let(SkipBlanks(e.rest), LAMBDA r :
  IF ~e.ok \/ r = <<>> THEN NoParse
     ELSE IF r[1] = "}" THEN Parsed(TPut(acc, k.v.s, e.v), Tail(r))
     ELSE IF r[1] = "," THEN JSONMembers(Tail(r), TPut(acc, k.v.s, e.v))
     ELSE NoParse)))))

\* JSON.parse(text): the value, or not ok when the text is not JSON.
JSONparse(text) ==
  Let(JSONValue(text), LAMBDA r :
  IF r.ok /\ SkipBlanks(r.rest) = <<>> THEN r ELSE NoParse)

\* data.<key> for the value JSON.parse gave: an array has the methods includes
\* and sort, a string the method includes.
DataGet(h, data, key) ==
  IF IsArray(h, data) THEN (IF key \in {<<"includes">>, <<"sort">>} THEN Fn ELSE Undef)
  ELSE IF data.t = "str" THEN (IF key = <<"includes">> THEN Fn ELSE Undef)
  ELSE Get(h, data, key)

coreParams == {"includes", "sort", "filter_groups", "limit", "offset", "perPage", "page"}
InvalidJSON == "Error: Invalid JSON string"

\* BrunoQuery.fromJSON(jsonString) evaluated in heap h: q is the new builder.
\* Whatever is raised inside the try block is raised again as InvalidJSON.
fromJSON(h, jsonString) ==
  Let(JSONparse(jsonString), LAMBDA p :
  Let(Alloc(h, p.v), LAMBDA a :
  Let(a.v, LAMBDA data :
  LET d(key) == DataGet(a.h, data, <<key>>) IN
  Let(IF data.t \in {"null", "undef"} THEN Throw(Ctx(a.h, NewBrunoQuery), "TypeError")
            ELSE Ctx(a.h, NewBrunoQuery), LAMBDA c0 :
  Let(IF Truthy(d("includes")) THEN addArrayIncludes(c0, d("includes")) ELSE c0, LAMBDA c1 :
  Let(IF Truthy(d("sort")) THEN addArraySort(c1, d("sort")) ELSE c1, LAMBDA c2 :
  Let(IF d("limit").t # "undef" THEN setLimit(c2, d("limit"), Undef) ELSE c2, LAMBDA c3 :
  Let(IF d("offset").t # "undef" THEN setOffset(c3, d("offset"), Undef) ELSE c3, LAMBDA c4 :
  Let(IF d("perPage").t # "undef" THEN setPerPage(c4, d("perPage"), Undef) ELSE c4, LAMBDA c5 :
  Let(IF d("page").t # "undef" THEN setPage(c5, d("page"), Undef) ELSE c5, LAMBDA c6 :
  Let(IF Truthy(d("filter_groups")) THEN addArrayFilterGroup(c6, d("filter_groups")) ELSE c6, LAMBDA c7 :
  Let(SelectSeq(EntsOf(a.h, data), LAMBDA e : ~(Len(e.key) = 1 /\ e.key[1] \in coreParams)), LAMBDA others :
  Let(NewObj(c7.h, PutAll(<<>>, others)), LAMBDA optional :
  Let(IF Len(others) > 0 THEN setOptional([c7 EXCEPT !.h = optional.h], optional.v) ELSE c7, LAMBDA c8 :
  IF ~p.ok THEN Throw(Ctx(h, NewBrunoQuery), InvalidJSON)
     ELSE IF Failed(c8) THEN Throw(c8, InvalidJSON)
     ELSE c8))))))))))))))

(***************************************************************************)
(* The state machine.  inst holds the builders the caller has (A, and B    *)
(* for a second builder: a clone or another instance); err is the error    *)
(* the last call raised; last records the last call: its name, the builder *)
(* it was made on, its argument and what it read before it ran.            *)
(* The heap holds the cells reachable from the builders; Collect drops the *)
(* others and renumbers, as addresses are not observable.                  *)
(***************************************************************************)
Insts == {"A", "B"}

ParamNames == {"includes", "sort", "filter_groups", "limit", "offset", "perPage", "page", "optional"}
AliasNames == {"limit", "offset", "perPage", "page"}
Roots(q) == {q.params[f] : f \in ParamNames} \cup {q.alias[f] : f \in AliasNames}

Live(h, qs) == UNION {Reach(h, v) : v \in UNION {Roots(qs[x]) : x \in DOMAIN qs}}
\* The new address of every cell when only the cells R are kept, in their order.
Ranks(h, R) == [a \in 1..Len(h) |-> Cardinality({b \in R : b <= a})]
Move(rank, v) == IF v.t = "ref" THEN Ref(rank[v.n]) ELSE v
MoveInst(rank, q) ==
  [params |-> [f \in ParamNames |-> Move(rank, q.params[f])],
   alias |-> [f \in AliasNames |-> Move(rank, q.alias[f])]]
CollectHeap(h, R, rank) ==
  Let(SelectSeq([a \in 1..Len(h) |-> a], LAMBDA a : a \in R), LAMBDA kept :
  [i \in 1..Len(kept) |->
        [k |-> h[kept[i]].k,
         ents |-> [j \in 1..Len(h[kept[i]].ents) |->
                     [key |-> h[kept[i]].ents[j].key,
                      val |-> Move(rank, h[kept[i]].ents[j].val)]]]])

NoCall == [op |-> "new", on |-> "A", arg |-> TUndef, pre |-> TUndef]
Call(op, on, arg, pre) == [op |-> op, on |-> on, arg |-> arg, pre |-> pre]

Init ==
  /\ heap = <<>>
  /\ inst = [x \in Insts |-> NewBrunoQuery]
  /\ err = "none"
  /\ last = NoCall

\* What the caller holds after a call: qs are its builders, h the heap the call
\* left, ex what it raised.  What the caller no longer reaches is collected.
Collected(h, qs, ex) ==
  Let(Live(h, qs), LAMBDA R :
  Let(Ranks(h, R), LAMBDA rank :
  [heap |-> CollectHeap(h, R, rank),
      inst |-> [y \in Insts |-> MoveInst(rank, qs[y])],
      err |-> ex]))

\* The caller's statement x.<method>(...): the method ran on x in context c; what
\* it did to x before it raised stays done.
Return(x, c) == Collected(c.h, [inst EXCEPT ![x] = c.q], c.ex)

\* The caller's statement x = <expression>: x keeps what it held when the
\* expression raises.
Assign(x, c) == Collected(c.h, IF Failed(c) THEN inst ELSE [inst EXCEPT ![x] = c.q], c.ex)

\* What x.toObject() returns, as a literal (undefined when it raises).
Obj(x) ==
  Let(toObject(Ctx(heap, inst[x])), LAMBDA c :
  IF Failed(c) THEN TUndef ELSE Deep(c.h, c.v))

(***************************************************************************)
(* Sort rules the caller passes.                                           *)
(***************************************************************************)
SortKeys == {<<"a">>, <<"b">>}
SortDirections == {<<"ASC">>, <<"DESC">>}
SortRule(k, d) == TObj(<<<<<<"key">>, TStr(k)>>, <<<<"direction">>, TStr(d)>>>>)
SortRules == {SortRule(k, d) : k \in SortKeys, d \in SortDirections}
SeqsUpTo(S, n) == UNION {[1..m -> S] : m \in 0..n}
SortArgs == {TArr(rs) : rs \in SeqsUpTo(SortRules, MaxSortArgs)}

(***************************************************************************)
(* Query strings the caller passes to fromQueryString: up to MaxEntries    *)
(* entries, each a key or key=value.                                       *)
(***************************************************************************)
FilterPath(g, f, property) ==
  <<"filter_groups", "[", ToString(g), "]", "[", "filters", "]", "[", ToString(f), "]",
    "[", property, "]">>
ParseEntries ==
  {<<"invalid", "=", "query">>, <<"malformed">>, <<"constructor", "=", "1">>,
   <<"(", "[", "a", "]", "=", "1">>,
   <<"user", "[", "full", "%20", "name", "]", "=", "John", "+", "Doe">>,
   <<"user", "[", "address", "]", "[", "city", "]", "=", "Hanoi">>,
   <<"tag", "[", "0", "]", "[", "key", "]", "=", "color">>,
   <<"limit", "=", "query">>,
   FilterPath(0, 0, "key") \o <<"=", "name">>,
   FilterPath(0, 0, "operator") \o <<"=", "ct">>}
QueryTexts ==
  {Join(es, <<"&">>) : es \in UNION {[1..m -> ParseEntries] : m \in 1..MaxEntries}}
  \cup {<<>>, <<"?">>, <<"&">>, <<"?">> \o <<"invalid", "=", "query">>}

\* x = BrunoQuery.fromQueryString(text)
FromQueryString(x, text) ==
  LET c == fromQueryString(heap, text)
      r == Assign(x, c)
  IN /\ heap' = r.heap /\ inst' = r.inst /\ err' = r.err
     /\ last' = Call("fromQueryString", x, TStr(text), TUndef)

NextParse == \E text \in QueryTexts : FromQueryString("B", text)

SpecParse == Init /\ [][NextParse]_vars

(***************************************************************************)
(* JSON texts the caller passes to fromJSON.                               *)
(***************************************************************************)
\* JSON.stringify of a literal.
JSONText(tr) == Let(Alloc(<<>>, tr), LAMBDA a :
                JSONstringify(a.h, a.v))
\* The object literal with the fields that are not absent.
Absent == [t |-> "absent", n |-> 0, s |-> <<>>, ents |-> <<>>]
Fields(props) == TObj(SelectSeq(props, LAMBDA pr : pr[2] # Absent))

JSONDocs ==
  {TNull, TArr(<<>>), TNum(5), TStr(<<"x">>), TBool(TRUE),
   TObj(<<<<<<"includes">>, TNum(5)>>>>),
   TObj(<<<<<<"filter_groups">>, TArr(<<TNull>>)>>>>),
   TObj(<<<<<<"filter_groups">>,
           TArr(<<TObj(<<<<<<"filters">>,
                           TArr(<<TArr(<<TStr(<<"name">>), TStr(<<"ct">>), TStr(<<"John">>)>>)>>)>>>>)>>)>>>>)}
  \cup {Fields(<<<<<<"includes">>, inc>>, <<<<"sort">>, srt>>, <<<<"limit">>, lim>>,
                 <<<<"status">>, st>>>>) :
          inc \in {Absent, TArr(<<TStr(<<"user">>)>>)},
          srt \in {Absent, TArr(<<SortRule(<<"a">>, <<"ASC">>), SortRule(<<"a">>, <<"DESC">>)>>),
                   TArr(<<TNull>>)},
          lim \in {Absent, TNum(10), TNull},
          st \in {Absent, TStr(<<"active">>)}}
MalformedTexts ==
  {<<"not", " ", "json">>, <<"{">>, <<>>, <<"{", "\"", "a", "\"", ":", "}">>}
JSONTexts == {JSONText(d) : d \in JSONDocs} \cup MalformedTexts

\* x = BrunoQuery.fromJSON(text)
FromJSON(x, text) ==
  LET c == fromJSON(heap, text)
      r == Assign(x, c)
  IN /\ heap' = r.heap /\ inst' = r.inst /\ err' = r.err
     /\ last' = Call("fromJSON", x, TStr(text), TUndef)

NextJSON == \E text \in JSONTexts : FromJSON("B", text)

SpecJSON == Init /\ [][NextJSON]_vars

(***************************************************************************)
(* The operations on sort rules.                                           *)
(***************************************************************************)
\* x.addSort(...sort) and x.addArraySort(sort)
AddArraySort(x, arg) ==
  LET a == Alloc(heap, arg)
      c == addArraySort(Ctx(a.h, inst[x]), a.v)
      r == Return(x, c)
  IN /\ heap' = r.heap /\ inst' = r.inst /\ err' = r.err
     /\ last' = Call("addArraySort", x, arg, Deep(heap, inst[x].params.sort))

\* x.setSort(...sort) and x.setArraySort(sort)
SetArraySort(x, arg) ==
  LET a == Alloc(heap, arg)
      c == setArraySort(Ctx(a.h, inst[x]), a.v)
      r == Return(x, c)
  IN /\ heap' = r.heap /\ inst' = r.inst /\ err' = r.err
     /\ last' = Call("setArraySort", x, arg, Deep(heap, inst[x].params.sort))

\* y = x.clone()
Clone(x, y) ==
  LET c == clone(Ctx(heap, inst[x]))
      r == Assign(y, c)
  IN /\ heap' = r.heap /\ inst' = r.inst /\ err' = r.err
     /\ last' = Call("clone", y, TUndef, Obj(x))

\* The query string and the JSON text a caller writes for a list of sort rules.
SortQueryText(rs) ==
  Join(Concat([i \in 1..Len(rs) |->
         << <<"sort">> \o Idx(i - 1) \o <<"[", "key", "]", "=">> \o TGet(rs[i], <<"key">>).s,
            <<"sort">> \o Idx(i - 1) \o <<"[", "direction", "]", "=">>
              \o TGet(rs[i], <<"direction">>).s >>]), <<"&">>)
SortJSONText(rs) == JSONText(TObj(<<<<<<"sort">>, TArr(rs)>>>>))

NextSort ==
  \/ \E arg \in SortArgs : AddArraySort("A", arg)
  \/ \E arg \in SortArgs : SetArraySort("A", arg)
  \/ Clone("A", "A")
  \/ \E arg \in SortArgs : FromQueryString("A", SortQueryText(TItems(arg)))
  \/ \E arg \in SortArgs : FromJSON("A", SortJSONText(TItems(arg)))

SpecSort == Init /\ [][NextSort]_vars

(***************************************************************************)
(* Lenient parsing (C7).                                                   *)
(***************************************************************************)
ExampleQueryText == <<"invalid", "=", "query", "&", "malformed">>
ExampleQueryObject ==
  TObj(<<<<<<"optional">>, TObj(<<<<<<"invalid">>, TStr(<<"query">>)>>,
                                  <<<<"malformed">>, TStr(<<>>)>>>>)>>>>)

\* C7: fromQueryString raises for no query string, and "invalid=query&malformed"
\* gives optional = {invalid: "query", malformed: ""}.
C7_NeverRaises ==
  last.op = "fromQueryString" =>
    /\ err = "none"
    /\ last.arg.s = ExampleQueryText => Obj("B") = ExampleQueryObject

\* The example of C7 alone: the text is decoded to the optional mapping.
C7_Example ==
  (last.op = "fromQueryString" /\ last.arg.s = ExampleQueryText) =>
    err = "none" /\ Obj("B") = ExampleQueryObject

(***************************************************************************)
(* Filter groups the caller passes.                                        *)
(***************************************************************************)
FilterRecord(key, operator, value) ==
  TObj(<<<<<<"key">>, TStr(key)>>, <<<<"operator">>, TStr(operator)>>, <<<<"value">>, value>>>>)
NameJohn == FilterRecord(<<"name">>, <<"ct">>, TStr(<<"John">>))
NameJohnShort == TArr(<<TStr(<<"name">>), TStr(<<"ct">>), TStr(<<"John">>)>>)
NameJohnNotFalse == TPut(NameJohn, <<"not">>, TBool(FALSE))
NameJohnNot == TArr(<<TStr(<<"name">>), TStr(<<"ct">>), TStr(<<"John">>), TBool(TRUE)>>)
NameJane == FilterRecord(<<"name">>, <<"ct">>, TStr(<<"Jane">>))
NameStartsJohn == FilterRecord(<<"name">>, <<"sw">>, TStr(<<"John">>))
Age25 == FilterRecord(<<"age">>, <<"eq">>, TNum(25))
StatusIn == FilterRecord(<<"status">>, <<"in">>, TArr(<<TStr(<<"a">>), TStr(<<"b">>)>>))
\* Two filters with a colon in the key and in a custom operator.
ColonKey == FilterRecord(<<"a", ":", "b">>, <<"c">>, TNum(1))
ColonOperator == FilterRecord(<<"a">>, <<"b", ":", "c">>, TNum(1))
ScoreNull == FilterRecord(<<"score">>, <<"eq">>, TNull)
ScoreNaN == FilterRecord(<<"score">>, <<"eq">>, TNaN)

Group(filters) == TObj(<<<<<<"filters">>, TArr(filters)>>>>)
GroupOr(or, filters) == TObj(<<<<<<"or">>, TBool(or)>>, <<<<"filters">>, TArr(filters)>>>>)
ExampleGroup == Group(<<NameJohn, NameJohn, Age25>>)
FilterGroupArgs ==
  {TArr(<<ExampleGroup>>),
   TArr(<<GroupOr(TRUE, <<NameJohnShort, NameJohnNotFalse, NameJohnNot>>)>>),
   TArr(<<GroupOr(FALSE, <<NameJohn, NameJane, NameStartsJohn>>)>>),
   TArr(<<Group(<<NameJohn, Age25, NameJohn>>)>>),
   TArr(<<Group(<<StatusIn, StatusIn>>)>>),
   TArr(<<Group(<<ColonKey, ColonOperator>>)>>),
   TArr(<<Group(<<ScoreNull, ScoreNaN>>)>>),
   TArr(<<ExampleGroup, ExampleGroup>>),
   TArr(<<Group(<<NameJohn>>), GroupOr(TRUE, <<NameJohn, NameJohn>>)>>)}

\* The lists of groups written as a text.
FilterTextArgs ==
  {TArr(<<ExampleGroup>>),
   TArr(<<GroupOr(TRUE, <<NameJohnShort, NameJohnNotFalse, NameJohnNot>>)>>),
   TArr(<<Group(<<NameJohn>>), GroupOr(TRUE, <<NameJohn, NameJohn>>)>>)}

GroupsOf(x) == Deep(heap, inst[x].params.filter_groups)

\* x.addFilterGroup(...groups) and x.addArrayFilterGroup(groups), while the
\* builder holds at most MaxStoredGroups groups.
AddArrayFilterGroup(x, arg) ==
  LET a == Alloc(heap, arg)
      c == addArrayFilterGroup(Ctx(a.h, inst[x]), a.v)
      r == Return(x, c)
  IN /\ Len(GroupsOf(x).ents) + Len(arg.ents) <= MaxStoredGroups
     /\ heap' = r.heap /\ inst' = r.inst /\ err' = r.err
     /\ last' = Call("addArrayFilterGroup", x, arg, GroupsOf(x))

\* x.setFilterGroup(...groups) and x.setArrayFilterGroup(groups)
SetArrayFilterGroup(x, arg) ==
  LET a == Alloc(heap, arg)
      c == setArrayFilterGroup(Ctx(a.h, inst[x]), a.v)
      r == Return(x, c)
  IN /\ heap' = r.heap /\ inst' = r.inst /\ err' = r.err
     /\ last' = Call("setArrayFilterGroup", x, arg, GroupsOf(x))

\* The query string and the JSON text a caller writes for a list of filter groups.
FilterQueryText(arg) ==
  Let(Alloc(<<>>, arg), LAMBDA a :
  Join(handleFilterGroups(a.h, [NewBrunoQuery EXCEPT !.params.filter_groups = a.v]), <<"&">>))
FilterJSONText(arg) == JSONText(TObj(<<<<<<"filter_groups">>, arg>>>>))

NextFilter ==
  \/ \E arg \in FilterGroupArgs : AddArrayFilterGroup("A", arg)
  \/ \E arg \in FilterGroupArgs : SetArrayFilterGroup("A", arg)
  \/ Clone("A", "A")
  \/ \E arg \in FilterTextArgs : FromQueryString("A", FilterQueryText(arg))
  \/ \E arg \in FilterTextArgs : FromJSON("A", FilterJSONText(arg))

SpecFilter == Init /\ [][NextFilter]_vars

(***************************************************************************)
(* The other operations of the builder, and the builder after reset.       *)
(***************************************************************************)
\* What x.toQueryString() returns.
QueryOf(x) == toQueryString(Ctx(heap, inst[x])).v.s
AliasOf(x) == inst[x].alias

\* x.addIncludes(...includes) and x.addArrayIncludes(includes), while the builder
\* holds at most MaxIncludes includes.
AddArrayIncludes(x, arg) ==
  LET a == Alloc(heap, arg)
      c == addArrayIncludes(Ctx(a.h, inst[x]), a.v)
      r == Return(x, c)
  IN /\ Len(Deep(heap, inst[x].params.includes).ents) + Len(arg.ents) <= MaxIncludes
     /\ heap' = r.heap /\ inst' = r.inst /\ err' = r.err
     /\ last' = Call("addArrayIncludes", x, arg, TUndef)

\* x.setIncludes(...includes) and x.setArrayIncludes(includes)
SetArrayIncludes(x, arg) ==
  LET a == Alloc(heap, arg)
      c == setArrayIncludes(Ctx(a.h, inst[x]), a.v)
      r == Return(x, c)
  IN /\ heap' = r.heap /\ inst' = r.inst /\ err' = r.err
     /\ last' = Call("setArrayIncludes", x, arg, TUndef)

\* x.setLimit(value, alias)
SetLimit(x, value, alias) ==
  LET c == setLimit(Ctx(heap, inst[x]), value, alias)
      r == Return(x, c)
  IN /\ heap' = r.heap /\ inst' = r.inst /\ err' = r.err
     /\ last' = Call("setLimit", x, TArr(<<TreeOf(value), TreeOf(alias)>>), TUndef)

\* x.setPage(value, alias)
SetPage(x, value, alias) ==
  LET c == setPage(Ctx(heap, inst[x]), value, alias)
      r == Return(x, c)
  IN /\ heap' = r.heap /\ inst' = r.inst /\ err' = r.err
     /\ last' = Call("setPage", x, TArr(<<TreeOf(value), TreeOf(alias)>>), TUndef)

\* x.setOptional(optional)
SetOptional(x, arg) ==
  LET a == Alloc(heap, arg)
      c == setOptional(Ctx(a.h, inst[x]), a.v)
      r == Return(x, c)
  IN /\ heap' = r.heap /\ inst' = r.inst /\ err' = r.err
     /\ last' = Call("setOptional", x, arg, TUndef)

\* x.reset()
Reset(x) ==
  LET c == reset(Ctx(heap, inst[x]))
      r == Return(x, c)
  IN /\ heap' = r.heap /\ inst' = r.inst /\ err' = r.err
     /\ last' = Call("reset", x, TUndef, Obj(x))

StatusActive == TObj(<<<<<<"status">>, TStr(<<"active">>)>>>>)
UserName == TObj(<<<<<<"user">>, TObj(<<<<<<"name">>, TStr(<<"John">>)>>>>)>>>>)
Mappings == TArr(<<TObj(<<<<<<"a">>, TNum(1)>>>>), TObj(<<<<<<"b">>, TNum(2)>>>>)>>)
NameAsc == SortRule(<<"name">>, <<"ASC">>)
AgeDesc == SortRule(<<"age">>, <<"DESC">>)

NextReset ==
  \/ AddArrayIncludes("A", TArr(<<TStr(<<"user">>)>>))
  \/ SetArraySort("A", TArr(<<NameAsc, AgeDesc>>))
  \/ SetArrayFilterGroup("A", TArr(<<ExampleGroup>>))
  \/ \E value \in {Num(10), Num(0 - 1)}, alias \in {Undef, Str(<<"size">>)} :
       SetLimit("A", value, alias)
  \/ SetPage("A", Num(2), Str(<<"p">>))
  \/ \E arg \in {StatusActive, Mappings} : SetOptional("A", arg)
  \/ Reset("A")

SpecReset == Init /\ [][NextReset]_vars

(***************************************************************************)
(* A builder and its clone.  toObject() hands out the stored optional      *)
(* value and the stored filter records themselves, and a copy of a record  *)
(* keeps the containers the record refers to; a caller that holds          *)
(* x.toObject() can therefore write into containers of the stored state.   *)
(***************************************************************************)
Other(x) == IF x = "A" THEN "B" ELSE "A"
Changed == <<"changed">>

\* The cells of the stored state that x.toObject() exposes.
Exposed(x) ==
  Let(toObject(Ctx(heap, inst[x])), LAMBDA c :
  IF Failed(c) THEN {} ELSE Reach(c.h, c.v) \cap (1..Len(heap)))

Written(h, a) ==
  IF h[a].k = "arr" THEN \E i \in 1..Len(h[a].ents) : h[a].ents[i].val = Str(Changed)
  ELSE HasKey(h[a].ents, Changed)

\* A list of strings takes one more string, an object one more property.
Writable(h, a) ==
  h[a].k = "obj" \/ \A i \in 1..Len(h[a].ents) : h[a].ents[i].val.t = "str"

\* o = x.toObject(), then one write into a container reached from o:
\* list.push("changed") or object.changed = true.  One write per stored state.
WriteThrough(x, a) ==
  LET h == IF heap[a].k = "arr" THEN Push(heap, a, <<Str(Changed)>>)
           ELSE [heap EXCEPT ![a].ents = PutProp(@, Changed, True)]
      r == Collected(h, inst, "none")
  IN /\ a \in Exposed(x) /\ Writable(heap, a)
     /\ \A b \in 1..Len(heap) : ~Written(heap, b)
     /\ heap' = r.heap /\ inst' = r.inst /\ err' = r.err
     /\ last' = Call("write", x, TUndef, Obj(Other(x)))

MaxCells == 12

NextClone ==
  \/ SetArraySort("A", TArr(<<NameAsc>>))
  \/ SetArrayFilterGroup("A", TArr(<<Group(<<StatusIn, NameJohnShort>>)>>))
  \/ \E arg \in {UserName, Mappings} : SetOptional("A", arg)
  \/ Clone("A", "B")
  \/ \E x \in Insts, a \in 1..MaxCells : WriteThrough(x, a)

SpecClone == Init /\ [][NextClone]_vars

(***************************************************************************)
(* The round trip through the query string.                                *)
(***************************************************************************)
\* x = BrunoQuery.fromQueryString(x.toQueryString())
RoundTrip(x) ==
  LET e == toQueryString(Ctx(heap, inst[x]))
      c == IF Failed(e) THEN e ELSE fromQueryString(e.h, e.v.s)
      r == Assign(x, c)
  IN /\ heap' = r.heap /\ inst' = r.inst /\ err' = r.err
     /\ last' = Call("roundTrip", x, TStr(QueryOf(x)), Obj(x))

TwoGroups == TArr(<<GroupOr(TRUE, <<NameJohn, Age25>>), GroupOr(FALSE, <<NameJane>>)>>)

NextRoundTrip ==
  \/ SetArrayIncludes("A", TArr(<<TStr(<<"user">>)>>))
  \/ SetArraySort("A", TArr(<<NameAsc, AgeDesc>>))
  \/ SetArrayFilterGroup("A", TwoGroups)
  \/ SetLimit("A", Num(10), Undef)
  \/ \E arg \in {StatusActive, UserName, Mappings} : SetOptional("A", arg)
  \/ RoundTrip("A")

SpecRoundTrip == Init /\ [][NextRoundTrip]_vars

(***************************************************************************)
(* Sort deduplication (C2, C3).                                            *)
(***************************************************************************)
SortOf(x) == Deep(heap, inst[x].params.sort)
SortKeyOf(rule) == TGet(rule, <<"key">>)
SortCalls == {"addArraySort", "setArraySort"}
\* The rules a sort call works on, in order: the stored ones (add only), then the new ones.
SortInput ==
  IF last.op = "addArraySort" THEN TItems(last.pre) \o TItems(last.arg) ELSE TItems(last.arg)
LastOccurrences(rs) ==
  SubseqAt(rs, {i \in 1..Len(rs) : \A j \in (i + 1)..Len(rs) : SortKeyOf(rs[j]) # SortKeyOf(rs[i])})
FirstOccurrences(rs) ==
  {i \in 1..Len(rs) : \A j \in 1..(i - 1) : SortKeyOf(rs[j]) # SortKeyOf(rs[i])}
\* Replace in place: one rule per key at the position of the key's first rule,
\* with the key's last rule.
ReplacedInPlace(rs) ==
  LET firsts == SubseqAt(rs, FirstOccurrences(rs))
  IN [k \in 1..Len(firsts) |->
        rs[CHOOSE i \in 1..Len(rs) :
             /\ SortKeyOf(rs[i]) = SortKeyOf(firsts[k])
             /\ \A j \in (i + 1)..Len(rs) : SortKeyOf(rs[j]) # SortKeyOf(rs[i])]]

\* The rules a text was written from.
RulesOfQuery(text) == CHOOSE rs \in SeqsUpTo(SortRules, MaxSortArgs) : SortQueryText(rs) = text
RulesOfJSON(text) == CHOOSE rs \in SeqsUpTo(SortRules, MaxSortArgs) : SortJSONText(rs) = text
HasUniqueKeys(rs) == \A i, j \in 1..Len(rs) : SortKeyOf(rs[i]) = SortKeyOf(rs[j]) => i = j

ExampleSortInput == <<SortRule(<<"a">>, <<"ASC">>), SortRule(<<"b">>, <<"DESC">>), SortRule(<<"a">>, <<"DESC">>)>>

\* C2 as stated: a sort call leaves one rule per key, at the position of the key's
\* first rule and with the direction of its last rule ([a ASC, b DESC, a DESC]
\* gives [a DESC, b DESC]).
C2_ReplaceInPlace ==
  (last.op \in SortCalls /\ err = "none") =>
     TItems(SortOf(last.on)) = ReplacedInPlace(SortInput)

\* C2 amended: when a rule is added whose key is already present, the later rule's
\* direction wins and the entry takes the position of the later rule, after the
\* rules kept from before; [a ASC, b DESC, a DESC] gives exactly [b DESC, a DESC].
C2_ReplaceAtLast ==
  (last.op \in SortCalls /\ err = "none") =>
     /\ (/\ last.op = "addArraySort"
         /\ Len(last.arg.ents) = 1
         /\ \E i \in 1..Len(last.pre.ents) :
              SortKeyOf(TItems(last.pre)[i]) = SortKeyOf(TItems(last.arg)[1]))
        => TItems(SortOf(last.on)) =
             SelectSeq(TItems(last.pre),
                       LAMBDA r : SortKeyOf(r) # SortKeyOf(TItems(last.arg)[1]))
             \o TItems(last.arg)
     /\ SortInput = ExampleSortInput
        => TItems(SortOf(last.on)) =
             <<SortRule(<<"b">>, <<"DESC">>), SortRule(<<"a">>, <<"DESC">>)>>

C2_Witness ==
  /\ last.op \in SortCalls /\ err = "none"
  /\ SortInput = ExampleSortInput
  /\ TItems(SortOf(last.on)) = <<SortRule(<<"b">>, <<"DESC">>), SortRule(<<"a">>, <<"DESC">>)>>

(***************************************************************************)
(* Sort uniqueness (C3).                                                   *)
(***************************************************************************)
\* C3: every builder's sort list holds one rule per key; after a sort call and
\* after fromQueryString and fromJSON it holds the last rule of each key of the
\* input, in the order of those last rules; after clone it is the original's list.
C3_SortUnique ==
  /\ \A x \in Insts : HasUniqueKeys(TItems(SortOf(x)))
  /\ (last.op \in SortCalls /\ err = "none") =>
       TItems(SortOf(last.on)) = LastOccurrences(SortInput)
  /\ (last.op = "fromQueryString" /\ err = "none") =>
       TItems(SortOf(last.on)) = LastOccurrences(RulesOfQuery(last.arg.s))
  /\ (last.op = "fromJSON" /\ err = "none") =>
       TItems(SortOf(last.on)) = LastOccurrences(RulesOfJSON(last.arg.s))
  /\ (last.op = "clone" /\ err = "none") =>
       TItems(SortOf(last.on)) = LastOccurrences(TItems(TGet(last.pre, <<"sort">>)))

\* A sort call, a parse and a clone have each dropped or carried a deduplicated list.
C3_Witness ==
  /\ last.op = "fromQueryString" /\ err = "none"
  /\ Len(RulesOfQuery(last.arg.s)) = 2
  /\ Len(TItems(SortOf(last.on))) = 1

(***************************************************************************)
(* Filter deduplication (C4, C5, C6).                                      *)
(***************************************************************************)
FilterCalls == {"addArrayFilterGroup", "setArrayFilterGroup"}
OrFalse(tr) == IF tr.t \in {"null", "undef"} THEN TBool(FALSE) ELSE tr
ItemAt(tr, i) == IF i <= Len(tr.ents) THEN tr.ents[i].val ELSE TUndef
\* The (key, operator, value, not) tuple of a filter, an absent not being false.
TupleOf(f) ==
  IF f.t = "arr" THEN <<ItemAt(f, 1), ItemAt(f, 2), ItemAt(f, 3), OrFalse(ItemAt(f, 4))>>
  ELSE <<TGet(f, <<"key">>), TGet(f, <<"operator">>), TGet(f, <<"value">>),
         OrFalse(TGet(f, <<"not">>))>>
Tuples(fs) == [i \in 1..Len(fs) |-> TupleOf(fs[i])]
NoDuplicateTuples(fs) == \A i, j \in 1..Len(fs) : TupleOf(fs[i]) = TupleOf(fs[j]) => i = j
FirstByTuple(fs) == {i \in 1..Len(fs) : \A j \in 1..(i - 1) : TupleOf(fs[j]) # TupleOf(fs[i])}
FiltersOf(group) == TItems(TGet(group, <<"filters">>))
\* The groups a filter call stored, after the ones the builder held before an add.
Offset == IF last.op = "addArrayFilterGroup" THEN Len(last.pre.ents) ELSE 0
StoredGroups == TItems(GroupsOf(last.on))

\* C4: in every filter group of toObject() no two filters have the same
\* (key, operator, value, not) tuple, and the group given [name ct John,
\* name ct John, age eq 25] ends with the first name filter and the age filter.
C4_NoDuplicateFilters ==
  /\ \A x \in Insts :
       \A g \in 1..Len(TGet(Obj(x), <<"filter_groups">>).ents) :
          NoDuplicateTuples(FiltersOf(TItems(TGet(Obj(x), <<"filter_groups">>))[g]))
  /\ (last.op \in FilterCalls /\ err = "none" /\ last.arg = TArr(<<ExampleGroup>>)) =>
       LET groups == TItems(TGet(Obj(last.on), <<"filter_groups">>))
       IN FiltersOf(groups[Len(groups)]) = <<NameJohn, Age25>>

C4_Witness ==
  /\ last.op = "addArrayFilterGroup" /\ err = "none" /\ last.arg = TArr(<<ExampleGroup>>)
  /\ Len(last.pre.ents) = 1
  /\ FiltersOf(TItems(TGet(Obj(last.on), <<"filter_groups">>))[2]) = <<NameJohn, Age25>>

\* C5: deduplicating a stored (deduplicated) group again changes nothing, and the
\* filters a call kept are filters of the group it was given, each at the first
\* place its tuple has there, in the order of those places.
C5_Idempotent ==
  /\ \A x \in Insts :
       \A g \in 1..Len(GroupsOf(x).ents) :
          LET group == Items(heap, inst[x].params.filter_groups)[g]
              d == deduplicateFilters(Ctx(heap, inst[x]), group)
          IN ~Failed(d) /\ Deep(d.h, d.v) = Deep(heap, group)
  /\ (last.op \in FilterCalls /\ err = "none") =>
       \A k \in 1..Len(last.arg.ents) :
          LET fs == FiltersOf(TItems(last.arg)[k])
              kept == FiltersOf(StoredGroups[Offset + k])
          IN \E I \in SUBSET FirstByTuple(fs) : SubseqAt(fs, I) = kept

C5_Witness ==
  /\ last.op \in FilterCalls /\ err = "none"
  /\ last.arg = TArr(<<Group(<<NameJohn, Age25, NameJohn>>)>>)
  /\ FiltersOf(StoredGroups[Offset + 1]) = <<NameJohn, Age25>>

\* C6: a filter call drops a filter only when an earlier filter of the same group
\* has the same key, operator, value and not; groups given before are untouched
\* and every group given is stored.
C6_OnlyDuplicatesDropped ==
  (last.op \in FilterCalls /\ err = "none") =>
    /\ Len(StoredGroups) = Offset + Len(last.arg.ents)
    /\ \A k \in 1..Offset : StoredGroups[k] = TItems(last.pre)[k]
    /\ \A k \in 1..Len(last.arg.ents) :
         LET fs == FiltersOf(TItems(last.arg)[k])
         IN FiltersOf(StoredGroups[Offset + k]) = SubseqAt(fs, FirstByTuple(fs))

\* The part of C6 about groups: a call stores every group it is given, touches no
\* group stored before, and a filter present in one group stays in another.
C6_NoCrossGroup ==
  (last.op \in FilterCalls /\ err = "none") =>
    /\ Len(StoredGroups) = Offset + Len(last.arg.ents)
    /\ \A k \in 1..Offset : StoredGroups[k] = TItems(last.pre)[k]
    /\ \A k \in 1..Len(last.arg.ents) :
         LET fs == FiltersOf(TItems(last.arg)[k])
         IN {TupleOf(f) : f \in {FiltersOf(StoredGroups[Offset + k])[i] :
                                   i \in 1..Len(FiltersOf(StoredGroups[Offset + k]))}}
            \subseteq {TupleOf(fs[i]) : i \in 1..Len(fs)}

(***************************************************************************)
(* The query-string round trip (C1).                                       *)
(***************************************************************************)
\* What an object shows: the properties of a mapping without their order, the
\* items of a list in order.
RECURSIVE View(_)
View(tr) ==
  [t |-> tr.t, n |-> tr.n, s |-> tr.s,
   items |-> IF tr.t = "arr" THEN [i \in 1..Len(tr.ents) |-> View(tr.ents[i].val)] ELSE <<>>,
   props |-> IF tr.t = "obj"
             THEN {<<tr.ents[i].key, View(tr.ents[i].val)>> : i \in 1..Len(tr.ents)}
             ELSE {}]

IsEmpty(tr) == IsContainer(tr) /\ tr.ents = <<>>
Without(tr, drop(_, _)) ==
  [tr EXCEPT !.ents = SelectSeq(tr.ents, LAMBDA e : ~drop(e.key, e.val))]
MapItems(tr, f(_)) ==
  [tr EXCEPT !.ents = [i \in 1..Len(tr.ents) |-> [key |-> tr.ents[i].key, val |-> f(tr.ents[i].val)]]]

\* A filter without a false not flag, a group of such filters.
NormalFilter(f) == Without(f, LAMBDA k, v : k = <<"not">> /\ v = TBool(FALSE))
NormalGroup(g) ==
  [g EXCEPT !.ents = [i \in 1..Len(g.ents) |->
     IF g.ents[i].key = <<"filters">>
     THEN [key |-> g.ents[i].key, val |-> MapItems(g.ents[i].val, NormalFilter)]
     ELSE g.ents[i]]]

\* The normal form of a toObject() result: no absent, undefined or empty field,
\* no false not flag.
Normal(obj) ==
  LET kept == Without(obj, LAMBDA k, v : v.t = "undef" \/ IsEmpty(v))
  IN View([kept EXCEPT !.ents = [i \in 1..Len(kept.ents) |->
       IF kept.ents[i].key = <<"filter_groups">>
       THEN [key |-> kept.ents[i].key, val |-> MapItems(kept.ents[i].val, NormalGroup)]
       ELSE kept.ents[i]]])

\* C1: for a builder d built through the public API,
\* fromQueryString(d.toQueryString()).toObject() equals d.toObject() after
\* normalization.
C1_RoundTrip ==
  last.op = "roundTrip" => err = "none" /\ Normal(Obj(last.on)) = Normal(last.pre)

\* The round trip of every builder without an array of mappings as optional.
C1_RoundTripNoArray ==
  last.op = "roundTrip" /\ TGet(last.pre, <<"optional">>).t # "arr" => C1_RoundTrip

\* A builder with includes, sort rules, filter groups and a nested optional
\* came back from the round trip as it was.
C1_Witness ==
  /\ last.op = "roundTrip" /\ err = "none"
  /\ THas(last.pre, <<"includes">>) /\ THas(last.pre, <<"sort">>)
  /\ THas(last.pre, <<"filter_groups">>)
  /\ TGet(last.pre, <<"optional">>) = UserName
  /\ Normal(Obj(last.on)) = Normal(last.pre)

(***************************************************************************)
(* clone (C9).                                                             *)
(***************************************************************************)
\* The containers reachable from the stored state of x.
CellsOf(x) == UNION {Reach(heap, v) : v \in Roots(inst[x])}

\* The clone shows what the original showed when it was cloned.
C9_CloneEqual == last.op = "clone" /\ err = "none" => Obj(last.on) = last.pre

\* C9: clone() yields an independent deep copy: the clone's toObject() equals
\* the original's at the time of cloning, no array or mapping reachable from the
\* clone is shared with the original, and a write made through one instance is
\* not observable through the other.
C9_IndependentCopy ==
  /\ C9_CloneEqual
  /\ CellsOf("A") \cap CellsOf("B") = {}
  /\ last.op = "write" => Obj(Other(last.on)) = last.pre

(***************************************************************************)
(* reset (C10).                                                            *)
(***************************************************************************)
\* What a new BrunoQuery() shows.
FreshObject == LET c == toObject(Ctx(<<>>, NewBrunoQuery)) IN Deep(c.h, c.v)
FreshQuery == toQueryString(Ctx(<<>>, NewBrunoQuery)).v.s

\* C10: after reset() the builder shows what a new builder shows: the same
\* toObject(), the same toQueryString() and the same pagination alias keys.
C10_ResetIsFresh ==
  last.op = "reset" =>
    /\ err = "none"
    /\ Obj(last.on) = FreshObject
    /\ QueryOf(last.on) = FreshQuery
    /\ AliasOf(last.on) = NewBrunoQuery.alias
    /\ inst[last.on] = NewBrunoQuery

\* reset() was called on a builder that held parameters and an alias key.
C10_Witness ==
  /\ last.op = "reset" /\ err = "none"
  /\ THas(last.pre, <<"size">>) /\ THas(last.pre, <<"optional">>) /\ THas(last.pre, <<"sort">>)
  /\ Obj(last.on) = FreshObject

(***************************************************************************)
(* The fatal path of fromJSON (C8).                                        *)
(***************************************************************************)
WellFormedJSON(text) == JSONparse(text).ok

\* C8: fromJSON raises exactly when the text is not well-formed JSON, and for every
\* well-formed text it returns a builder.
C8_RaisesIffMalformed ==
  last.op = "fromJSON" => (err # "none" <=> ~WellFormedJSON(last.arg.s))

\* The part of C8 that holds: a text that is not well-formed JSON is refused
\* with the invalid-JSON error.
C8_MalformedRaises ==
  (last.op = "fromJSON" /\ ~WellFormedJSON(last.arg.s)) => err = InvalidJSON

(***************************************************************************)
(* toURL, and the builder of the README's quick start.                     *)
(***************************************************************************)
\* fullUrl.replace(/&{2,}/g, "&"): a run of "&" becomes one "&".
CollapseAmpersands(s) ==
  SubseqAt(s, {i \in 1..Len(s) : ~(s[i] = "&" /\ i > 1 /\ s[i - 1] = "&")})
\* fullUrl.replace(/\?&/g, "?"): an "&" right after a "?" goes.
DropAmpersandAfterQuestion(s) ==
  SubseqAt(s, {i \in 1..Len(s) : ~(s[i] = "&" /\ i > 1 /\ s[i - 1] = "?")})
endsWith(s, tok) == s # <<>> /\ s[Len(s)] = tok

\* this.toURL(baseUrl): the context whose v is the string returned.
toURL(c, baseUrl) ==
  Let(toQueryString(c), LAMBDA e :
  IF Failed(e) THEN e
  ELSE Let(baseUrl \o (IF endsWith(baseUrl, "?") THEN <<"&">> ELSE <<"?">>) \o e.v.s, LAMBDA fullUrl :
       [e EXCEPT !.v = Str(DropAmpersandAfterQuestion(CollapseAmpersands(fullUrl)))]))

\* x.toURL(baseUrl): the builder stays as it is, the caller has the URL.
ToURL(x, baseUrl) ==
  /\ UNCHANGED <<heap, inst>>
  /\ err' = toURL(Ctx(heap, inst[x]), baseUrl).ex
  /\ last' = Call("toURL", x, TStr(baseUrl), TreeOf(toURL(Ctx(heap, inst[x]), baseUrl).v))

Books == <<"https", ":", "//api.example.com/books">>
BaseUrls ==
  {<<>>, Books, Books \o <<"?">>, Books \o <<"?", "a", "=", "1">>,
   Books \o <<"?", "a", "=", "1", "&">>}

AuthorPublisher == TArr(<<TStr(<<"author">>), TStr(<<"publisher">>)>>)
CategoryStatus ==
  TObj(<<<<<<"category">>, TStr(<<"books">>)>>, <<<<"status">>, TStr(<<"active">>)>>>>)

NextEncode ==
  \/ SetArrayIncludes("A", AuthorPublisher)
  \/ SetArraySort("A", TArr(<<NameAsc>>))
  \/ SetArrayFilterGroup("A", TwoGroups)
  \/ \E value \in {Num(20), Null} : SetLimit("A", value, Undef)
  \/ \E alias \in {Undef, Str(<<"p">>)} : SetPage("A", Num(1), alias)
  \/ \E arg \in {CategoryStatus, UserName} : SetOptional("A", arg)
  \/ \E baseUrl \in BaseUrls : ToURL("A", baseUrl)

SpecEncode == Init /\ [][NextEncode]_vars

(***************************************************************************)
(* The order of the segments of toQueryString (C11).                       *)
(***************************************************************************)
\* The segments of a query string and the family of each: 1 includes, 2 sort,
\* 3 filter_groups, 4 pagination (under the alias when one is set), 5 optional.
Segments(text) == IF text = <<>> THEN <<>> ELSE Split(text, "&")
SegmentKey(seg) == IF Find(seg, "=") = 0 THEN seg ELSE SubSeq(seg, 1, Find(seg, "=") - 1)
PaginationKeys(x) ==
  {ToStr(heap, OrElse(AliasOf(x)[f], Str(<<f>>))) : f \in AliasNames}
Family(x, seg) ==
  Let(RootOf(SegmentKey(seg)), LAMBDA root :
  IF root = <<"includes">> THEN 1
  ELSE IF root = <<"sort">> THEN 2
  ELSE IF root = <<"filter_groups">> THEN 3
  ELSE IF SegmentKey(seg) \in PaginationKeys(x) THEN 4
  ELSE 5)
QuickStart ==
  Join(<< <<"includes", "[", "]", "=", "author">>, <<"includes", "[", "]", "=", "publisher">>,
          <<"sort", "[", "0", "]", "[", "key", "]", "=", "name">>,
          <<"sort", "[", "0", "]", "[", "direction", "]", "=", "ASC">>,
          <<"limit", "=", "20">>, <<"page", "=", "1">>,
          <<"category", "=", "books">>, <<"status", "=", "active">> >>, <<"&">>)
QuickStartObject ==
  TObj(<<<<<<"includes">>, AuthorPublisher>>, <<<<"sort">>, TArr(<<NameAsc>>)>>,
         <<<<"limit">>, TNum(20)>>, <<<<"page">>, TNum(1)>>,
         <<<<"optional">>, CategoryStatus>>>>)

Adjacent(s, a, b) == \E i \in 1..(Len(s) - 1) : s[i] = a /\ s[i + 1] = b

\* C12: toURL(base) is base, "?" and the query string when base holds no "?";
\* when base carries a query part the query string is appended with "&", so the
\* join brings in no second "?"; the result holds no "&&" and no "?&".
C12_Separator ==
  last.op = "toURL" =>
    Let(last.pre.s, LAMBDA url :
      /\ Count(last.arg.s, "?") = 0 => url = last.arg.s \o <<"?">> \o QueryOf(last.on)
      /\ Count(last.arg.s, "?") > 0 => Count(url, "?") = Count(last.arg.s, "?")
      /\ ~Adjacent(url, "&", "&") /\ ~Adjacent(url, "?", "&"))

\* toURL of a base without a query part, and of a base that ends with "?".
C12_NoQueryPart ==
  last.op = "toURL" /\ (Count(last.arg.s, "?") = 0 \/ endsWith(last.arg.s, "?")) => C12_Separator

(***************************************************************************)
(* Decoding one filter: parseOperator and parseValue on the operator code  *)
(* and the value text of a filter bucket.                                  *)
(***************************************************************************)
\* this.parseFilter(key, operator, value, not), as parseFilterGroups calls it
\* for a bucket; the filter made is what the caller has.
ParseFilter(key, operator, value, not) ==
  /\ UNCHANGED <<heap, inst, err>>
  /\ last' = Call("parseFilter", "B",
                  TArr(<<TreeOf(key), TreeOf(operator), TreeOf(value), TreeOf(not)>>),
                  parseFilter(key, operator, value, not))

\* Operator codes on the wire: the ten codes, codes the map does not have, the
\* empty code, an absent code (params.get gives null) and a name every object
\* inherits.
OperatorCodes ==
  {Str(<<op>>) : op \in QueryOperators \cup {"zz", "EQ", "equals", "constructor", "toString"}}
    \cup {Str(<<>>), Null}
\* Value texts on the wire.
ValueTexts ==
  {Null, Str(<<>>), Str(<<"null">>), Str(<<"true">>), Str(<<"false">>), Str(<<"12">>),
   Str(<<"abc">>), Str(<<"12", "abc">>), Str(<<"abc", "12">>), Str(<<" ", "12">>),
   Str(<<"-", "5">>), Str(<<"True">>)}

NextDecode ==
  \E operator \in OperatorCodes, value \in ValueTexts, not \in {Null, Str(<<"true">>)} :
    ParseFilter(Str(<<"age">>), operator, value, not)

SpecDecode == Init /\ [][NextDecode]_vars

(***************************************************************************)
(* The operator of a decoded filter (C14).                                 *)
(***************************************************************************)
\* C14: each of the ten operator codes decodes to itself, every other code and
\* an absent code decode to eq, and what parseOperator returns is always one of
\* the ten operators.
C14_OperatorFallback ==
  last.op = "parseFilter" =>
    Let(last.arg.ents[2].val, LAMBDA code :
    Let(TGet(last.pre, <<"operator">>), LAMBDA operator :
      /\ operator.t = "str" /\ Len(operator.s) = 1 /\ operator.s[1] \in QueryOperators
      /\ operator = IF code.t = "str" /\ Len(code.s) = 1 /\ code.s[1] \in QueryOperators
                    THEN code ELSE TStr(<<"eq">>)))

\* The part of C14 that holds: the ten codes, an absent or empty code and a
\* code that is no property name of Object.prototype.
C14_OwnCodes ==
  (last.op = "parseFilter" /\ ~(last.arg.ents[2].val.t = "str" /\ Inherited(last.arg.ents[2].val.s)))
    => C14_OperatorFallback

(***************************************************************************)
(* The value of a decoded filter (C15).                                    *)
(***************************************************************************)
\* The text without leading and trailing blanks.
RECURSIVE Trimmed(_)
Trimmed(s) ==
  IF s # <<>> /\ s[1] = " " THEN Trimmed(Tail(s))
  ELSE IF s # <<>> /\ s[Len(s)] = " " THEN Trimmed(SubSeq(s, 1, Len(s) - 1))
  ELSE s
\* The whole text is a number.
WholeNumber(s) ==
  \/ Len(s) = 1 /\ IsNumeral(s[1])
  \/ Len(s) = 2 /\ s[1] = "-" /\ IsNumeral(s[2])
WholeNumberValue(s) == IF Len(s) = 1 THEN NumeralValue(s[1]) ELSE 0 - NumeralValue(s[2])

\* C15: parseValue gives null for "null", the booleans for "true" and "false",
\* the number for a text that as a whole (trimmed) is a number, and every other
\* text unchanged; a text that starts with a number and goes on stays a text.
C15_ValueInference ==
  last.op = "parseFilter" =>
    Let(last.arg.ents[3].val, LAMBDA text :
    Let(TGet(last.pre, <<"value">>), LAMBDA value :
      value = IF text.t = "null" \/ text = TStr(<<"null">>) THEN TNull
              ELSE IF text = TStr(<<"true">>) THEN TBool(TRUE)
              ELSE IF text = TStr(<<"false">>) THEN TBool(FALSE)
              ELSE IF WholeNumber(Trimmed(text.s)) THEN TNum(WholeNumberValue(Trimmed(text.s)))
              ELSE text))

\* The part of C15 that holds: every text that does not start with a number
\* and go on with something else.
C15_NoNumericPrefix ==
  (last.op = "parseFilter"
   /\ (parseFloat(last.arg.ents[3].val.s).t = "num" => WholeNumber(Trimmed(last.arg.ents[3].val.s))))
    => C15_ValueInference

(***************************************************************************)
(* The README's "Parse Existing Query": a query string whose sort rule has *)
(* a key and no direction.                                                 *)
(***************************************************************************)
ReadmeQuery ==
  Join(<< <<"includes", "[", "]", "=", "author">>, <<"sort", "[", "0", "]", "[", "key", "]", "=", "name">>,
          <<"limit", "=", "20">>, <<"category", "=", "books">> >>, <<"&">>)
\* The README's string and its neighbours: with and without the includes pair,
\* the sort key, a direction and the limit.
ReadmeQueries ==
  {Join(SelectSeq(<<inc, key, dir, lim, <<"category", "=", "books">> >>, LAMBDA seg : seg # <<>>), <<"&">>) :
     inc \in {<<>>, <<"includes", "[", "]", "=", "author">>},
     key \in {<<>>, <<"sort", "[", "0", "]", "[", "key", "]", "=", "name">>},
     dir \in {<<>>, <<"sort", "[", "0", "]", "[", "direction", "]", "=", "ASC">>,
              <<"sort", "[", "0", "]", "[", "direction", "]", "=", "desc">>},
     lim \in {<<>>, <<"limit", "=", "20">>}}

NextReadme ==
  \/ \E text \in ReadmeQueries : FromQueryString("B", text)
  \/ \E value \in {Num(1), Num(2), Num(3)} : SetPage("B", value, Undef)
  \/ \E value \in {Num(20), Num(5)} : SetLimit("B", value, Undef)

SpecReadme == Init /\ [][NextReadme]_vars

\* C16: fromQueryString("includes[]=author&sort[0][key]=name&limit=20&category=books")
\* gives sort = [{key: "name", direction: "ASC"}], the sort key without a
\* direction being kept with ASC, with includes ["author"], limit 20 and
\* optional {category: "books"}.
C16_ReadmeParse ==
  (last.op = "fromQueryString" /\ last.arg = TStr(ReadmeQuery)) =>
    /\ err = "none"
    /\ TGet(Obj("B"), <<"includes">>) = TArr(<<TStr(<<"author">>)>>)
    /\ TGet(Obj("B"), <<"sort">>) = TArr(<<NameAsc>>)
    /\ TGet(Obj("B"), <<"limit">>) = TNum(20)
    /\ TGet(Obj("B"), <<"optional">>) = TObj(<<<<<<"category">>, TStr(<<"books">>)>>>>)

\* What the README's string does give: includes, limit and optional as
\* documented, and no sort at all.
C16_SortDropped ==
  (last.op = "fromQueryString" /\ last.arg = TStr(ReadmeQuery)) =>
    /\ err = "none"
    /\ TGet(Obj("B"), <<"includes">>) = TArr(<<TStr(<<"author">>)>>)
    /\ ~THas(Obj("B"), <<"sort">>)
    /\ TGet(Obj("B"), <<"limit">>) = TNum(20)
    /\ TGet(Obj("B"), <<"optional">>) = TObj(<<<<<<"category">>, TStr(<<"books">>)>>>>)

(***************************************************************************)
(* toJSON, and the round trip through fromJSON.                            *)
(***************************************************************************)
\* The properties obj[`${key}_${index}`] = item[key] of every item of an
\* optional array, in the order the two forEach loops set them.
SuffixedEntries(h, optional) ==
  Concat([i \in 1..Length(h, optional) |->
            Let(EntsOf(h, Items(h, optional)[i]), LAMBDA ents :
            [k \in 1..Len(ents) |->
               [key |-> ents[k].key \o <<"_", ToString(i - 1)>>, val |-> ents[k].val]])])

\* this.toJSON(); the text is c.v.s.
toJSON(c) ==
  Let(toObject(c), LAMBDA o :
  IF Failed(o) THEN o
  ELSE Let(Get(o.h, o.v, <<"optional">>), LAMBDA optional :
       Let(IF ~Truthy(optional) THEN EntsOf(o.h, o.v)
           ELSE SelectSeq(PutAll(EntsOf(o.h, o.v),
                                 IF IsArray(o.h, optional) THEN SuffixedEntries(o.h, optional)
                                 ELSE EntsOf(o.h, optional)),
                          LAMBDA e : e.key # <<"optional">>), LAMBDA ents :
       Let([o.h EXCEPT ![o.v.n].ents = ents], LAMBDA h :
       [o EXCEPT !.h = h, !.v = Str(JSONstringify(h, o.v))]))))

\* x = BrunoQuery.fromJSON(x.toJSON()); last keeps the query string and the
\* object of x from before.
JSONRoundTrip(x) ==
  LET e == toJSON(Ctx(heap, inst[x]))
      c == IF Failed(e) THEN e ELSE fromJSON(e.h, e.v.s)
      r == Assign(x, c)
  IN /\ heap' = r.heap /\ inst' = r.inst /\ err' = r.err
     /\ last' = Call("jsonRoundTrip", x, TStr(QueryOf(x)), Obj(x))

CustomTest == TObj(<<<<<<"custom">>, TStr(<<"value">>)>>, <<<<"test">>, TNum(12)>>>>)

NextJSONRoundTrip ==
  \/ SetArrayIncludes("A", TArr(<<TStr(<<"user">>), TStr(<<"posts">>)>>))
  \/ SetArraySort("A", TArr(<<NameAsc, AgeDesc>>))
  \/ SetArrayFilterGroup("A", TwoGroups)
  \/ \E alias \in {Undef, Str(<<"size">>)} : SetLimit("A", Num(10), alias)
  \/ \E arg \in {CustomTest, UserName, Mappings, TObj(<<>>)} : SetOptional("A", arg)
  \/ JSONRoundTrip("A")

SpecJSONRoundTrip == Init /\ [][NextJSONRoundTrip]_vars

(***************************************************************************)
(* The JSON round trip (C13).                                              *)
(***************************************************************************)
IsCoreKey(key) == Len(key) = 1 /\ key[1] \in coreParams
\* The optional of a toObject() result is absent or one mapping none of whose
\* keys is a core key name.
PlainOptional(obj) ==
  \/ ~THas(obj, <<"optional">>)
  \/ /\ TGet(obj, <<"optional">>).t = "obj"
     /\ \A i \in 1..Len(TGet(obj, <<"optional">>).ents) :
          ~IsCoreKey(TGet(obj, <<"optional">>).ents[i].key)

\* C13: for a builder d whose optional is absent or a single mapping with keys
\* that are no core key names, fromJSON(d.toJSON()) has the toObject() and the
\* toQueryString() of d.
C13_JSONRoundTrip ==
  (last.op = "jsonRoundTrip" /\ PlainOptional(last.pre)) =>
    /\ err = "none"
    /\ Obj(last.on) = last.pre
    /\ QueryOf(last.on) = last.arg.s

\* The part of C13 that holds: a builder without a pagination alias whose
\* optional is absent or a mapping with at least one key.
C13_NoAliasNoEmpty ==
  (/\ last.op = "jsonRoundTrip" /\ PlainOptional(last.pre)
   /\ \A i \in 1..Len(last.pre.ents) :
        IsCoreKey(last.pre.ents[i].key) \/ last.pre.ents[i].key = <<"optional">>
   /\ ~IsEmpty(TGet(last.pre, <<"optional">>)))
    => C13_JSONRoundTrip

(***************************************************************************)
(* An optional that is a list of mappings, through the query string.       *)
(***************************************************************************)
\* The longest optional list a builder is grown to.
MaxOptionals == 3

\* x.addOptional(arg)
AddOptional(x, arg) ==
  LET a == Alloc(heap, arg)
      c == addOptional(Ctx(a.h, inst[x]), a.v)
      r == Return(x, c)
  IN /\ IsArray(c.h, c.q.params.optional) => Length(c.h, c.q.params.optional) <= MaxOptionals
     /\ heap' = r.heap /\ inst' = r.inst /\ err' = r.err
     /\ last' = Call("addOptional", x, arg, TUndef)

NextOptionalList ==
  \/ \E arg \in {Mappings, StatusActive} : SetOptional("A", arg)
  \/ \E arg \in {Mappings, StatusActive, UserName, TArr(<<UserName>>)} : AddOptional("A", arg)
  \/ SetLimit("A", Num(10), Undef)
  \/ RoundTrip("A")

SpecOptionalList == Init /\ [][NextOptionalList]_vars

\* C17: for a builder whose optional is a list of mappings, set by
\* setOptional([...]) or grown by addOptional, the optional of
\* fromQueryString(toQueryString()) is the list of the same mappings in the
\* same order.
C17_OptionalListRoundTrip ==
  (last.op = "roundTrip" /\ TGet(last.pre, <<"optional">>).t = "arr") =>
    /\ err = "none"
    /\ View(TGet(Obj(last.on), <<"optional">>)) = View(TGet(last.pre, <<"optional">>))

\* What the round trip does give for these lists: one mapping, in which the
\* mappings of the list are merged.
C17_OneMapping ==
  (last.op = "roundTrip" /\ TGet(last.pre, <<"optional">>).t = "arr") =>
    /\ err = "none"
    /\ TGet(Obj(last.on), <<"optional">>).t = "obj"
    /\ \A i \in 1..Len(TGet(last.pre, <<"optional">>).ents) :
         \A k \in 1..Len(TGet(last.pre, <<"optional">>).ents[i].val.ents) :
           THas(TGet(Obj(last.on), <<"optional">>), TGet(last.pre, <<"optional">>).ents[i].val.ents[k].key)

(***************************************************************************)
(* Filters whose value is an array, through the query string.              *)
(***************************************************************************)
AgeBetween == FilterRecord(<<"age">>, <<"bt">>, TArr(<<TNum(18), TNum(30)>>))
StatusInShort ==
  TArr(<<TStr(<<"status">>), TStr(<<"in">>), TArr(<<TStr(<<"HOAT_DONG">>), TStr(<<"DA_DONG">>)>>)>>)
ArrayFilterGroups ==
  {TArr(<<Group(<<StatusIn>>)>>),
   TArr(<<Group(<<NameJohn, AgeBetween>>)>>),
   TArr(<<GroupOr(TRUE, <<NameJohn>>), Group(<<StatusInShort, Age25>>)>>)}

NextFilterArray ==
  \/ \E arg \in ArrayFilterGroups : SetArrayFilterGroup("A", arg)
  \/ SetArraySort("A", TArr(<<NameAsc>>))
  \/ \E value \in {Num(15), Num(20)} : SetLimit("A", value, Undef)
  \/ \E value \in {Num(1), Num(2)} : SetPage("A", value, Undef)
  \/ RoundTrip("A")

SpecFilterArray == Init /\ [][NextFilterArray]_vars

(***************************************************************************)
(* The round trip of an array-valued filter (C18).                         *)
(***************************************************************************)
\* The filter at place f of the group at place g of a toObject() result, and
\* the places of the filters whose value is an array.
GroupFilters(obj, g) == FiltersOf(TItems(TGet(obj, <<"filter_groups">>))[g])
FilterAt(obj, g, f) ==
  IF g <= Len(TGet(obj, <<"filter_groups">>).ents) /\ f <= Len(GroupFilters(obj, g))
  THEN GroupFilters(obj, g)[f] ELSE TUndef
ArrayFilters(obj) ==
  UNION {{<<g, f>> : f \in {k \in 1..Len(GroupFilters(obj, g)) :
                               TGet(GroupFilters(obj, g)[k], <<"value">>).t = "arr"}} :
           g \in 1..Len(TGet(obj, <<"filter_groups">>).ents)}
\* segs holds the segments of part one after the other.
HoldsRun(segs, part) ==
  \E k \in 0..(Len(segs) - Len(part)) : \A m \in 1..Len(part) : segs[k + m] = part[m]
\* One segment per element under filter_groups[g][filters][f][value][].
ElementSegments(g, f, value) ==
  [m \in 1..Len(value.ents) |->
     <<"filter_groups">> \o Idx(g - 1) \o <<"[", "filters", "]">> \o Idx(f - 1)
       \o <<"[", "value", "]", "[", "]", "=">>
       \o (IF value.ents[m].val.t = "num" THEN <<ToString(value.ents[m].val.n)>>
           ELSE value.ents[m].val.s)]

\* C18: a filter whose value is an array of scalars is encoded as one segment
\* per element under filter_groups[i][filters][j][value][], and
\* fromQueryString of that output has at the same place a filter with the same
\* array value, the elements in the same order.
C18_ArrayValueRoundTrip ==
  last.op = "roundTrip" =>
    \A gf \in ArrayFilters(last.pre) :
      Let(TGet(FilterAt(last.pre, gf[1], gf[2]), <<"value">>), LAMBDA value :
        /\ HoldsRun(Segments(last.arg.s), ElementSegments(gf[1], gf[2], value))
        /\ TGet(FilterAt(Obj(last.on), gf[1], gf[2]), <<"value">>) = value)

\* The half of C18 that holds, the encoding; and what the decoder returns: the
\* filter with its key and operator and no value.
C18_EncodedAndLost ==
  last.op = "roundTrip" =>
    \A gf \in ArrayFilters(last.pre) :
      Let(FilterAt(last.pre, gf[1], gf[2]), LAMBDA filter :
        /\ HoldsRun(Segments(last.arg.s), ElementSegments(gf[1], gf[2], TGet(filter, <<"value">>)))
        /\ TGet(FilterAt(Obj(last.on), gf[1], gf[2]), <<"key">>) = TGet(filter, <<"key">>)
        /\ TGet(FilterAt(Obj(last.on), gf[1], gf[2]), <<"operator">>) = TGet(filter, <<"operator">>)
        /\ TGet(FilterAt(Obj(last.on), gf[1], gf[2]), <<"value">>) = TUndef)

(***************************************************************************)
(* Strings with spaces and reserved characters, through the query string.  *)
(***************************************************************************)
FirstName == <<"first", " ", "name">>
APlusB == <<"a", "+", "b">>
Research == <<"R", "&", "D", "=", "50", "%">>
Bracketed == <<"[", "x", "]">>
ReservedTexts == {FirstName, APlusB, Research, Bracketed}
ReservedKeys == {FirstName, APlusB, <<"R", "&", "D">>}

NextEscape ==
  \/ \E s \in {FirstName, Research} : SetArrayIncludes("A", TArr(<<TStr(s)>>))
  \/ \E s \in {APlusB, Bracketed} : SetArraySort("A", TArr(<<SortRule(s, <<"ASC">>)>>))
  \/ \E s \in ReservedTexts :
       SetArrayFilterGroup("A", TArr(<<Group(<<FilterRecord(s, <<"eq">>, TStr(s))>>)>>))
  \/ \E s \in {FirstName, Research} : SetOptional("A", TObj(<<<<<<"note">>, TStr(s)>>>>))
  \/ \E s \in ReservedKeys : SetOptional("A", TObj(<<<<s, TStr(<<"x">>)>>>>))
  \/ RoundTrip("A")

SpecEscape == Init /\ [][NextEscape]_vars

(***************************************************************************)
(* The round trip of percent-encoded strings (C19).                        *)
(***************************************************************************)
\* The field of the object before the round trip is the field after it.
SameField(field) ==
  View(TGet(Obj(last.on), <<field>>)) = View(TGet(last.pre, <<field>>))
HasBlank(tr) == tr.t = "str" /\ \E i \in 1..Len(tr.s) : tr.s[i] = " "
PlainKeys(tr) ==
  \A i \in 1..Len(tr.ents) : \A k \in 1..Len(tr.ents[i].key) : tr.ents[i].key[k] \notin Reserved

\* C19: every include, sort key, filter key, filter string value, optional key
\* and optional string value with spaces or reserved characters is, after
\* fromQueryString(toQueryString()), the string it was.
C19_PercentRoundTrip ==
  last.op = "roundTrip" =>
    /\ err = "none"
    /\ SameField("includes") /\ SameField("sort")
    /\ SameField("filter_groups") /\ SameField("optional")

\* The part of C19 that holds: includes, sort keys and the string values of an
\* optional with plain keys come back; so do the key and the value of a filter
\* without a space.
C19_ValuesComeBack ==
  last.op = "roundTrip" =>
    /\ err = "none"
    /\ SameField("includes") /\ SameField("sort")
    /\ PlainKeys(TGet(last.pre, <<"optional">>)) => SameField("optional")
    /\ (\A gf \in (1..1) \X (1..1) :
          ~HasBlank(TGet(FilterAt(last.pre, gf[1], gf[2]), <<"key">>))
          /\ ~HasBlank(TGet(FilterAt(last.pre, gf[1], gf[2]), <<"value">>)))
       => SameField("filter_groups")

(***************************************************************************)
(* Filter groups on the wire: indices with gaps, pairs in any order,       *)
(* buckets without a key or an operator.                                   *)
(***************************************************************************)
\* What the wire holds: per bucket (group index, filter index) whether its
\* pairs are there in full, without the key, without the operator or not at
\* all; per group the or pair; and whether the pairs go out in reverse.
WireIndices == <<2, 10>>
Layouts ==
  [b22 : {"full", "noKey", "noOperator"}, b210 : {"absent", "full"},
   b102 : {"absent", "full", "noOperator"},
   or2 : {"absent", "true", "false"}, or10 : {"true"}, reversed : BOOLEAN]
BucketOf(layout, g, f) ==
  CASE g = 2 /\ f = 2 -> layout.b22
    [] g = 2 /\ f = 10 -> layout.b210
    [] g = 10 /\ f = 2 -> layout.b102
    [] OTHER -> "absent"
OrOf(layout, g) == IF g = 2 THEN layout.or2 ELSE layout.or10
BucketKey(g, f) ==
  CASE g = 2 /\ f = 2 -> <<"name">> [] g = 2 /\ f = 10 -> <<"age">> [] OTHER -> <<"status">>
BucketPairs(layout, g, f) ==
  Let(BucketOf(layout, g, f), LAMBDA bucket :
  IF bucket = "absent" THEN <<>>
  ELSE (IF bucket = "noKey" THEN <<>> ELSE << FilterPath(g, f, "key") \o <<"=">> \o BucketKey(g, f) >>)
       \o (IF bucket = "noOperator" THEN <<>> ELSE << FilterPath(g, f, "operator") \o <<"=", "sw">> >>)
       \o << FilterPath(g, f, "value") \o <<"=", "John">> >>)
GroupPairs(layout, g) ==
  (IF OrOf(layout, g) = "absent" THEN <<>>
   ELSE << <<"filter_groups", "[", ToString(g), "]", "[", "or", "]", "=", OrOf(layout, g)>> >>)
  \o Concat([k \in 1..Len(WireIndices) |-> BucketPairs(layout, g, WireIndices[k])])
Reversed(s) == [i \in 1..Len(s) |-> s[Len(s) + 1 - i]]
WirePairs(layout) ==
  Let(Concat([k \in 1..Len(WireIndices) |-> GroupPairs(layout, WireIndices[k])]), LAMBDA pairs :
  IF layout.reversed THEN Reversed(pairs) ELSE pairs)
WireText(layout) == Join(WirePairs(layout), <<"&">>)

NextWire == \E layout \in Layouts : FromQueryString("B", WireText(layout))

SpecWire == Init /\ [][NextWire]_vars

(***************************************************************************)
(* The reconstruction of filter groups (C20).                              *)
(***************************************************************************)
\* The groups the wire of a layout stands for: the groups by ascending index,
\* in each the filters of the full buckets by ascending index, no group
\* without such a filter, or true for an or pair "true".
LayoutFilters(layout, g) ==
  Concat([k \in 1..Len(WireIndices) |->
            IF BucketOf(layout, g, WireIndices[k]) = "full"
            THEN << FilterRecord(BucketKey(g, WireIndices[k]), <<"sw">>, TStr(<<"John">>)) >>
            ELSE <<>>])
LayoutGroups(layout) ==
  Concat([k \in 1..Len(WireIndices) |->
            IF LayoutFilters(layout, WireIndices[k]) = <<>> THEN <<>>
            ELSE << GroupOr(OrOf(layout, WireIndices[k]) = "true",
                            LayoutFilters(layout, WireIndices[k])) >>])

\* C20: fromQueryString returns the groups in ascending order of the group
\* index and in each group the filters in ascending order of the filter index
\* (10 after 2, gaps allowed), whatever the order of the pairs on the wire; a
\* filter is there only if its bucket has key and operator, a group without a
\* valid filter is left out, and the or flag of a group is true exactly when
\* filter_groups[g][or] is "true".
C20_GroupReconstruction ==
  \A layout \in Layouts :
    (last.op = "fromQueryString" /\ last.arg = TStr(WireText(layout))) =>
      /\ err = "none"
      /\ TGet(Obj("B"), <<"filter_groups">>) =
           (IF LayoutGroups(layout) = <<>> THEN TUndef ELSE TArr(LayoutGroups(layout)))

\* Reversed pairs with both groups, two filters in group 2, a bucket without
\* operator in group 10 next to none: group 10 is left out, group 2 has name
\* before age.
C20_Witness ==
  /\ last.op = "fromQueryString"
  /\ last.arg = TStr(WireText([b22 |-> "full", b210 |-> "full", b102 |-> "noOperator",
                               or2 |-> "true", or10 |-> "true", reversed |-> TRUE]))
  /\ TGet(Obj("B"), <<"filter_groups">>) =
       TArr(<<GroupOr(TRUE, <<FilterRecord(<<"name">>, <<"sw">>, TStr(<<"John">>)),
                              FilterRecord(<<"age">>, <<"sw">>, TStr(<<"John">>))>>)>>)

(***************************************************************************)
(* The same pairs on the wire in different orders.                         *)
(***************************************************************************)
\* The units a wire is made of; the two includes pairs stay together and in
\* their order, every other unit is one pair.
IncludesUnit == <<"includes", "[", "]", "=", "author", "&", "includes", "[", "]", "=", "publisher">>
WireUnits(with) ==
  << IncludesUnit >>
  \o (IF "sort" \in with
      THEN << <<"sort", "[", "0", "]", "[", "key", "]", "=", "name">>,
              <<"sort", "[", "0", "]", "[", "direction", "]", "=", "ASC">> >>
      ELSE <<>>)
  \o (IF "filter" \in with
      THEN << FilterPath(0, 0, "key") \o <<"=", "name">>, FilterPath(0, 0, "operator") \o <<"=", "ct">>,
              FilterPath(0, 0, "value") \o <<"=", "John">> >>
      ELSE <<>>)
  \o (IF "scalar" \in with THEN << <<"limit", "=", "20">>, <<"category", "=", "books">> >> ELSE <<>>)
  \o (IF "tag" \in with
      THEN << <<"tag", "[", "0", "]", "[", "key", "]", "=", "color">>,
              <<"tag", "[", "0", "]", "[", "value", "]", "=", "red">> >>
      ELSE <<>>)
  \o (IF "item" \in with
      THEN << <<"item", "[", "0", "]", "[", "key", "]", "=", "size">>,
              <<"item", "[", "0", "]", "[", "value", "]", "=", "L">> >>
      ELSE <<>>)
WireOrders == {"forward", "reversed", "rotated", "swapped"}
\* The units in one of four orders: as they are, last to first, the first unit
\* moved to the end, the first two units exchanged.
Ordered(units, order) ==
  CASE order = "forward" -> units
    [] order = "reversed" -> Reversed(units)
    [] order = "rotated" -> Tail(units) \o <<units[1]>>
    [] OTHER -> IF Len(units) < 2 THEN units
                ELSE <<units[2], units[1]>> \o SubSeq(units, 3, Len(units))
OrderedText(with, order) == Join(Ordered(WireUnits(with), order), <<"&">>)
WireContents == SUBSET {"sort", "filter", "scalar", "tag", "item"}

NextOrder ==
  \E with \in WireContents, order \in WireOrders : FromQueryString("B", OrderedText(with, order))

SpecOrder == Init /\ [][NextOrder]_vars

(***************************************************************************)
(* The order of the pairs on the wire (C21).                               *)
(***************************************************************************)
\* BrunoQuery.fromQueryString(text).toObject()
ParsedObject(text) ==
  Let(fromQueryString(<<>>, text), LAMBDA c :
  Let(toObject(Ctx(c.h, c.q)), LAMBDA o :
  IF Failed(c) \/ Failed(o) THEN TUndef ELSE Deep(o.h, o.v)))

\* C21: two query strings with the same pairs in a different order (the
\* includes[] pairs in the same order among themselves) parse to builders with
\* equal toObject().
C21_OrderInsignificant ==
  \A with \in WireContents, order \in WireOrders :
    (last.op = "fromQueryString" /\ last.arg = TStr(OrderedText(with, order))) =>
      View(Obj("B")) = View(ParsedObject(OrderedText(with, "forward")))

\* The part of C21 that holds: wires with at most one indexed optional prefix.
C21_OneIndexedPrefix ==
  \A with \in WireContents, order \in WireOrders :
    (last.op = "fromQueryString" /\ last.arg = TStr(OrderedText(with, order))
     /\ ~({"tag", "item"} \subseteq with)) =>
      View(Obj("B")) = View(ParsedObject(OrderedText(with, "forward")))

(***************************************************************************)
(* Optional prefixes with numeric indices on the wire, next to scalar and  *)
(* nested optional pairs.                                                  *)
(***************************************************************************)
\* What the wire holds under the prefix tag at the indices 0, 2 and 10 (a
\* key/value entry, a named entry or nothing), a scalar pair, a nested pair,
\* and whether the pairs go out in reverse.
IndexedLayouts ==
  [t10 : {"absent", "keyValue"}, t2 : {"absent", "named"}, t0 : {"absent", "keyValue", "named"},
   scalar : {"absent", "text", "number"}, nested : BOOLEAN, reversed : BOOLEAN]
TagIndices == <<0, 2, 10>>
TagEntry(layout, index) ==
  CASE index = 0 -> layout.t0 [] index = 2 -> layout.t2 [] OTHER -> layout.t10
TagKey(index) == CASE index = 0 -> <<"color">> [] index = 2 -> <<"shade">> [] OTHER -> <<"size">>
TagValue(index) == CASE index = 0 -> <<"red">> [] index = 2 -> <<"dark">> [] OTHER -> <<"L">>
TagPath(index, name) == <<"tag", "[", ToString(index), "]", "[">> \o name \o <<"]">>
TagPairs(layout, index) ==
  CASE TagEntry(layout, index) = "keyValue" ->
         << TagPath(index, <<"key">>) \o <<"=">> \o TagKey(index),
            TagPath(index, <<"value">>) \o <<"=">> \o TagValue(index) >>
    [] TagEntry(layout, index) = "named" ->
         << TagPath(index, TagKey(index)) \o <<"=">> \o TagValue(index) >>
    [] OTHER -> <<>>
IndexedPairs(layout) ==
  Let(TagPairs(layout, 10) \o TagPairs(layout, 2) \o TagPairs(layout, 0)
      \o (CASE layout.scalar = "text" -> << <<"category", "=", "books">> >>
            [] layout.scalar = "number" -> << <<"category", "=", "12">> >>
            [] OTHER -> <<>>)
      \o (IF layout.nested THEN << <<"user", "[", "name", "]", "=", "John">> >> ELSE <<>>), LAMBDA pairs :
  IF layout.reversed THEN Reversed(pairs) ELSE pairs)
IndexedText(layout) == Join(IndexedPairs(layout), <<"&">>)

NextIndexed == \E layout \in IndexedLayouts : FromQueryString("B", IndexedText(layout))

SpecIndexed == Init /\ [][NextIndexed]_vars

(***************************************************************************)
(* Indexed optional groups (C22).                                          *)
(***************************************************************************)
\* The indices of a layout with an entry, ascending, and the mapping of each:
\* {key: k, value: v} collapsed to {k: v}, a named entry as it is.
PresentIndices(layout) == SelectSeq(TagIndices, LAMBDA index : TagEntry(layout, index) # "absent")
IndexMapping(index) == TObj(<<<<TagKey(index), TStr(TagValue(index))>>>>)
ParsedLayout(layout) == last.op = "fromQueryString" /\ last.arg = TStr(IndexedText(layout))

\* C22: for the keys prefix[<digits>][name] of an optional prefix,
\* fromQueryString collects the pairs per index, orders the indices
\* numerically and appends one mapping per distinct index to the optional
\* list, {key: k, value: v} collapsed to {k: v}.
C22_MappingPerIndex ==
  \A layout \in IndexedLayouts :
    (ParsedLayout(layout) /\ PresentIndices(layout) # <<>>) =>
      Let(TGet(Obj("B"), <<"optional">>), LAMBDA optional :
        /\ err = "none" /\ optional.t = "arr"
        /\ Len(optional.ents) = Len(PresentIndices(layout))
        /\ \A k \in 1..Len(optional.ents) :
             optional.ents[k].val \in {IndexMapping(PresentIndices(layout)[k]),
                                       TObj(<<<<<<"tag">>, IndexMapping(PresentIndices(layout)[k])>>>>)})

\* What fromQueryString does give: one mapping for the prefix, in which the
\* entries of all its indices are merged in numeric order of the index; this
\* is C22 for a prefix with a single index.
C22_MappingPerPrefix ==
  \A layout \in IndexedLayouts :
    (ParsedLayout(layout) /\ PresentIndices(layout) # <<>>) =>
      /\ err = "none"
      /\ TGet(Obj("B"), <<"optional">>) =
           TArr(<<TObj(<<<<<<"tag">>,
                   TObj([k \in 1..Len(PresentIndices(layout)) |->
                           <<TagKey(PresentIndices(layout)[k]),
                             TStr(TagValue(PresentIndices(layout)[k]))>>])>>>>)>>)

(***************************************************************************)
(* The form of the decoded optional (C23).                                 *)
(***************************************************************************)
\* Some mapping of the list holds the key, at its root or one level down.
Represented(optional, key) ==
  \E i \in 1..Len(optional.ents) :
    \/ THas(optional.ents[i].val, key)
    \/ \E k \in 1..Len(optional.ents[i].val.ents) : THas(optional.ents[i].val.ents[k].val, key)
IsMapping(tr) == tr.t = "obj"

\* C23: the optional decoded by fromQueryString is absent, one mapping or a
\* list of mappings; with an indexed prefix in the string it is the list, and
\* the list still holds every scalar and every nested-object optional prefix
\* of the string.
C23_ListCarriesAll ==
  \A layout \in IndexedLayouts :
    ParsedLayout(layout) =>
      Let(TGet(Obj("B"), <<"optional">>), LAMBDA optional :
        /\ err = "none"
        /\ \/ optional = TUndef
           \/ IsMapping(optional)
           \/ optional.t = "arr" /\ \A i \in 1..Len(optional.ents) : IsMapping(optional.ents[i].val)
        /\ PresentIndices(layout) # <<>> =>
             /\ optional.t = "arr"
             /\ layout.scalar # "absent" => Represented(optional, <<"category">>)
             /\ layout.nested => Represented(optional, <<"user">>))

\* The part of C23 that holds: the three forms, and the list form with an
\* indexed prefix; the scalar and nested prefixes are in the result when the
\* string has no indexed prefix.
C23_FormOnly ==
  \A layout \in IndexedLayouts :
    ParsedLayout(layout) =>
      Let(TGet(Obj("B"), <<"optional">>), LAMBDA optional :
        /\ err = "none"
        /\ \/ optional = TUndef
           \/ IsMapping(optional)
           \/ optional.t = "arr" /\ \A i \in 1..Len(optional.ents) : IsMapping(optional.ents[i].val)
        /\ PresentIndices(layout) # <<>> => optional.t = "arr"
        /\ PresentIndices(layout) = <<>> =>
             /\ layout.scalar # "absent" => THas(optional, <<"category">>)
             /\ layout.nested => THas(optional, <<"user">>))

(***************************************************************************)
(* Shorthand filters and record filters (C24).                             *)
(***************************************************************************)
NameJohnNotRecord == TPut(NameJohn, <<"not">>, TBool(TRUE))
NameJohnShortFalse ==
  TArr(<<TStr(<<"name">>), TStr(<<"ct">>), TStr(<<"John">>), TBool(FALSE)>>)
Age25Short == TArr(<<TStr(<<"age">>), TStr(<<"eq">>), TNum(25)>>)
ShorthandFilters == {NameJohnShort, NameJohn, NameJohnNot, NameJohnNotRecord}
ShorthandArgs ==
  {TArr(<<Group(<<f>>)>>) : f \in ShorthandFilters}
  \cup {TArr(<<Group(<<f, g>>)>>) : f, g \in ShorthandFilters}
  \cup {TArr(<<Group(<<NameJohnShortFalse, NameJohnNotFalse>>)>>),
        TArr(<<Group(<<NameJohnNotFalse, NameJohnShortFalse>>)>>),
        TArr(<<Group(<<Age25Short, Age25>>)>>),
        TArr(<<Group(<<Age25, NameJohnShort, Age25Short>>)>>)}
ShorthandSetArgs ==
  {TArr(<<Group(<<Age25Short>>), Group(<<NameJohn, NameJohnShort>>)>>),
   TArr(<<GroupOr(TRUE, <<NameJohnNot, NameJohnNotRecord>>)>>)}

NextShorthand ==
  \/ \E arg \in ShorthandArgs : AddArrayFilterGroup("A", arg)
  \/ \E arg \in ShorthandSetArgs : SetArrayFilterGroup("A", arg)

SpecShorthand == Init /\ [][NextShorthand]_vars

\* The record {key, operator, value, not} written for the shorthand [key,
\* operator, value, not], and {key, operator, value} for [key, operator, value].
RecordOf(f) ==
  IF f.t # "arr" THEN f
  ELSE TObj(<<<<<<"key">>, ItemAt(f, 1)>>, <<<<"operator">>, ItemAt(f, 2)>>,
              <<<<"value">>, ItemAt(f, 3)>>>>
            \o IF Len(f.ents) > 3 THEN <<<<<<"not">>, ItemAt(f, 4)>>>> ELSE <<>>)
RecordsOfGroup(g) ==
  TPut(g, <<"filters">>, TArr([i \in 1..Len(FiltersOf(g)) |-> RecordOf(FiltersOf(g)[i])]))
RecordsOf(arg) == TArr([k \in 1..Len(arg.ents) |-> RecordsOfGroup(TItems(arg)[k])])

\* toObject().filter_groups of a builder that held the groups pre and was given
\* arg by the call op.
GroupsAfter(op, pre, arg) ==
  Let(Alloc(<<>>, pre), LAMBDA p :
  Let(Alloc(p.h, arg), LAMBDA a :
  Let(Ctx(a.h, [NewBrunoQuery EXCEPT !.params.filter_groups = p.v]), LAMBDA c :
  Let(toObject(IF op = "addArrayFilterGroup" THEN addArrayFilterGroup(c, a.v)
                                             ELSE setArrayFilterGroup(c, a.v)), LAMBDA o :
  IF Failed(o) THEN TUndef ELSE TGet(Deep(o.h, o.v), <<"filter_groups">>)))))

Occurrences(fs, f) == Cardinality({i \in 1..Len(fs) : fs[i] = f})

\* C24: a builder given filters in shorthand and a builder given the same filters
\* as records have equal toObject().filter_groups, and when a group given holds
\* a shorthand and a record of the same tuple, toObject() has that filter once.
C24_ShorthandEquivalence ==
  (last.op \in FilterCalls /\ err = "none") =>
    LET groups == TGet(Obj(last.on), <<"filter_groups">>)
    IN /\ groups = GroupsAfter(last.op, last.pre, last.arg)
       /\ groups = GroupsAfter(last.op, last.pre, RecordsOf(last.arg))
       /\ groups = GroupsAfter(last.op, RecordsOf(last.pre), RecordsOf(last.arg))
       /\ \A k \in 1..Len(last.arg.ents) :
            LET fs == FiltersOf(TItems(last.arg)[k])
                kept == FiltersOf(TItems(groups)[Offset + k])
            IN \A i, j \in 1..Len(fs) :
                 (i # j /\ RecordOf(fs[i]) = RecordOf(fs[j])) =>
                    Occurrences(kept, RecordOf(fs[i])) = 1

C24_Witness ==
  /\ last.op = "addArrayFilterGroup" /\ err = "none"
  /\ last.arg = TArr(<<Group(<<NameJohnNot, NameJohnNotRecord>>)>>)
  /\ last.pre = TArr(<<GroupOr(FALSE, <<NameJohnShort>>)>>)
  /\ TGet(Obj("A"), <<"filter_groups">>) =
       TArr(<<GroupOr(FALSE, <<NameJohn>>), GroupOr(FALSE, <<NameJohnNotRecord>>)>>)

(***************************************************************************)
(* Pagination values set and removed (C25).                                *)
(***************************************************************************)
PaginationValues == {Null, Num(0), Num(1), Num(2), Num(20), Num(0 - 1)}

NextPagination ==
  \/ \E value \in PaginationValues : SetLimit("A", value, Undef)
  \/ \E value \in PaginationValues : SetPage("A", value, Undef)
  \/ AddArrayIncludes("A", TArr(<<TStr(<<"user">>)>>))
  \/ SetOptional("A", StatusActive)

SpecPagination == Init /\ [][NextPagination]_vars

\* The places of the segments of x.toQueryString() written under key.
SegmentsUnder(x, key) ==
  {i \in 1..Len(Segments(QueryOf(x))) : SegmentKey(Segments(QueryOf(x))[i]) = key}
\* A literal without entries as the value it stands for.
ScalarOf(tr) == [t |-> tr.t, n |-> tr.n, s |-> tr.s]
SegmentValue(seg) == SubSeq(seg, Find(seg, "=") + 1, Len(seg))
\* The value x.setLimit or x.setPage was called with last.
ValueSet == last.arg.ents[1].val
PaginationCalls == {"setLimit", "setPage"}
FieldSet == IF last.op = "setLimit" THEN <<"limit">> ELSE <<"page">>

\* C25: after setLimit or setPage with a number, 0 included, the query string has
\* one segment of that key and toObject() has the key, both with the same value;
\* after a call with null neither has it; a limit segment comes before a page
\* segment.
C25_PaginationPresence ==
  /\ last.op \in PaginationCalls =>
       /\ ValueSet.t = "num" =>
            /\ Cardinality(SegmentsUnder(last.on, FieldSet)) = 1
            /\ THas(Obj(last.on), FieldSet)
            /\ \A i \in SegmentsUnder(last.on, FieldSet) :
                 SegmentValue(Segments(QueryOf(last.on))[i])
                   = ToStr(<<>>, ScalarOf(TGet(Obj(last.on), FieldSet)))
       /\ ValueSet.t = "null" =>
            SegmentsUnder(last.on, FieldSet) = {} /\ ~THas(Obj(last.on), FieldSet)
  /\ \A i \in SegmentsUnder("A", <<"limit">>), j \in SegmentsUnder("A", <<"page">>) : i < j

\* The same with the number 0 read as a removal, and the default in the place of
\* a negative number.
C25_ZeroAbsent ==
  /\ last.op \in PaginationCalls =>
       /\ (ValueSet.t = "num" /\ ValueSet.n # 0) =>
            /\ Cardinality(SegmentsUnder(last.on, FieldSet)) = 1
            /\ TGet(Obj(last.on), FieldSet) =
                 (IF ValueSet.n < 0
                     THEN TNum(IF last.op = "setLimit" THEN DEFAULT_LIMIT ELSE DEFAULT_PAGE)
                     ELSE ValueSet)
            /\ \A i \in SegmentsUnder(last.on, FieldSet) :
                 SegmentValue(Segments(QueryOf(last.on))[i])
                   = ToStr(<<>>, ScalarOf(TGet(Obj(last.on), FieldSet)))
       /\ (ValueSet.t = "null" \/ ValueSet.n = 0) =>
            SegmentsUnder(last.on, FieldSet) = {} /\ ~THas(Obj(last.on), FieldSet)
  /\ \A x \in Insts :
       /\ \A i \in SegmentsUnder(x, <<"limit">>), j \in SegmentsUnder(x, <<"page">>) : i < j
       /\ \A f \in {"limit", "page"} :
            /\ THas(Obj(x), <<f>>) <=> SegmentsUnder(x, <<f>>) # {}
            /\ THas(Obj(x), <<f>>) <=> (inst[x].params[f].t = "num" /\ inst[x].params[f].n # 0)

(***************************************************************************)
(* Pagination values that are no numbers (C26).                            *)
(***************************************************************************)
\* What the wire holds: for limit and page nothing, a word, a dash and a word, or
\* a number; the includes, a sort rule and an optional pair or not.
NumberLayouts ==
  [limit : {"absent", "word", "dash", "number"},
   page : {"absent", "word", "dash", "number"},
   includes : BOOLEAN, sort : BOOLEAN, category : BOOLEAN]
NumberText(kind, number) ==
  CASE kind = "word" -> <<"query">>
    [] kind = "dash" -> <<"-", "abc">>
    [] OTHER -> <<number>>
NumberPairs(layout) ==
  (IF layout.includes THEN << <<"includes", "[", "]", "=", "author">> >> ELSE <<>>)
  \o (IF layout.sort
      THEN << <<"sort", "[", "0", "]", "[", "key", "]", "=", "name">>,
              <<"sort", "[", "0", "]", "[", "direction", "]", "=", "ASC">> >>
      ELSE <<>>)
  \o (IF layout.limit # "absent"
      THEN << <<"limit", "=">> \o NumberText(layout.limit, "20") >> ELSE <<>>)
  \o (IF layout.page # "absent"
      THEN << <<"page", "=">> \o NumberText(layout.page, "2") >> ELSE <<>>)
  \o (IF layout.category THEN << <<"category", "=", "books">> >> ELSE <<>>)
NumberLayoutText(layout) == Join(NumberPairs(layout), <<"&">>)

NextNumber == \E layout \in NumberLayouts : FromQueryString("B", NumberLayoutText(layout))

SpecNumber == Init /\ [][NextNumber]_vars

\* The layout without the limit and page that are no numbers.
NumbersOnly(layout) ==
  [layout EXCEPT !.limit = IF @ = "number" THEN @ ELSE "absent",
                 !.page = IF @ = "number" THEN @ ELSE "absent"]
HasNaN(text) == \E i \in 1..Len(text) : text[i] = "NaN"
NoNaNEmitted(x) ==
  /\ ~HasNaN(QueryOf(x))
  /\ \A i \in 1..Len(Obj(x).ents) : Obj(x).ents[i].val.t # "nan"
StoresNaN(x) == \E f \in {"limit", "offset", "perPage", "page"} : inst[x].params[f].t = "nan"

NameOnly == TObj(<<<<<<"name">>, TStr(<<"John">>)>>>>)
ProfileName == TObj(<<<<<<"profile">>, NameOnly>>>>)
NestingValues ==
  {TStr(<<"books">>), TNum(1), NameOnly, ProfileName,
   TArr(<<TStr(<<"a">>), TStr(<<"b">>)>>), TArr(<<NameOnly>>)}
NestingArgs ==
  {TObj(<<<<<<"user">>, v>>>>) : v \in NestingValues}
  \cup {TObj(<<<<<<"user">>, v>>, <<<<"meta">>, w>>>>) : v, w \in NestingValues}

NextNesting ==
  \/ \E arg \in NestingArgs : SetOptional("A", arg)
  \/ \E arg \in {StatusActive, TObj(<<<<<<"meta">>, ProfileName>>>>), TArr(<<UserName>>)} :
       AddOptional("A", arg)

SpecNesting == Init /\ [][NextNesting]_vars

\* encodeURIComponent("[object Object]")
ObjectText == <<"%5B", "object", "%20", "Object", "%5D">>
EmitsObjectText(x) ==
  \E i \in 1..Len(Segments(QueryOf(x))) : SegmentValue(Segments(QueryOf(x))[i]) = ObjectText

\* The mappings of the optional parameter of x: the one mapping, or the items of
\* the list.
OptionalMappings(x) ==
  Let(Deep(heap, inst[x].params.optional), LAMBDA opt :
  IF opt.t = "arr" THEN {opt.ents[i].val : i \in 1..Len(opt.ents)}
  ELSE IF opt.t = "obj" THEN {opt}
  ELSE {})
HasMapping(tr) == \E i \in 1..Len(tr.ents) : tr.ents[i].val.t = "obj"
\* A value the bracket grammar writes: a scalar, a list of scalars, or a mapping
\* of such values.
OneLevel(v) ==
  IF v.t = "obj" THEN \A i \in 1..Len(v.ents) : v.ents[i].val.t # "obj" /\ ~HasMapping(v.ents[i].val)
  ELSE ~HasMapping(v)
DeeperThanOneLevel(x) ==
  \E m \in OptionalMappings(x) : \E i \in 1..Len(m.ents) : ~OneLevel(m.ents[i].val)

\* C27: a builder whose optional holds a mapping nested deeper than one level
\* either raised when it was given, or writes it in bracket keys; no segment of
\* toQueryString() has the string form of an object as its value.
C27_NoObjectText ==
  \A x \in Insts : err = "none" => ~EmitsObjectText(x)

\* A segment has the string form of an object as its value exactly when the
\* optional holds a mapping below the first level of nesting or inside a list.
C27_OneLevelOnly ==
  \A x \in Insts : EmitsObjectText(x) <=> DeeperThanOneLevel(x)

(***************************************************************************)
(* Encoding what was decoded from an encoded string (C28).                 *)
(***************************************************************************)
\* The filter of the tests' string: its properties in the order key, value,
\* operator, and in the order key, operator, value.
StatusEqValueFirst ==
  TObj(<<<<<<"key">>, TStr(<<"status">>)>>, <<<<"value">>, TStr(<<"active">>)>>,
         <<<<"operator">>, TStr(<<"eq">>)>>>>)
StatusEq == FilterRecord(<<"status">>, <<"eq">>, TStr(<<"active">>))
\* The query string of Test 5 (tests/comprehensive.ts).
TestQueryString ==
  Join(<< <<"includes", "[", "]", "=", "user">>, <<"includes", "[", "]", "=", "posts">>,
          <<"sort", "[", "0", "]", "[", "key", "]", "=", "name">>,
          <<"sort", "[", "0", "]", "[", "direction", "]", "=", "ASC">>,
          FilterPath(0, 0, "key") \o <<"=", "status">>,
          FilterPath(0, 0, "value") \o <<"=", "active">>,
          FilterPath(0, 0, "operator") \o <<"=", "eq">>,
          <<"limit", "=", "10">>, <<"page", "=", "1">>,
          <<"custom_param", "=", "value">> >>, <<"&">>)
CustomParam == TObj(<<<<<<"custom_param">>, TStr(<<"value">>)>>>>)

NextReencode ==
  \/ SetArrayIncludes("A", TArr(<<TStr(<<"user">>), TStr(<<"posts">>)>>))
  \/ SetArraySort("A", TArr(<<NameAsc>>))
  \/ \E arg \in {TArr(<<Group(<<StatusEqValueFirst>>)>>), TArr(<<Group(<<StatusEq, Age25>>)>>)} :
       SetArrayFilterGroup("A", arg)
  \/ SetLimit("A", Num(10), Undef)
  \/ SetPage("A", Num(1), Undef)
  \/ SetOptional("A", CustomParam)

SpecReencode == Init /\ [][NextReencode]_vars

\* BrunoQuery.fromQueryString(text).toQueryString()
Reencoded(text) ==
  Let(fromQueryString(<<>>, text), LAMBDA c :
  Let(toQueryString(Ctx(c.h, c.q)), LAMBDA e :
  IF Failed(c) \/ Failed(e) THEN <<"raised">> ELSE e.v.s))

\* C28: the query string of a builder, decoded and encoded again, is the same
\* string; so is the tests' string, which is the query string of a builder given
\* the filter {key, value, operator}.
C28_ReencodeIdentity ==
  /\ \A x \in Insts : Reencoded(QueryOf(x)) = QueryOf(x)
  /\ \A x \in Insts : QueryOf(x) = TestQueryString => Reencoded(TestQueryString) = TestQueryString

\* The filters of x whose properties are not in the order key, operator, value.
ValueFirst(x) ==
  \E g \in 1..Len(GroupsOf(x).ents) :
     \E f \in 1..Len(FiltersOf(TItems(GroupsOf(x))[g])) :
        Let(FiltersOf(TItems(GroupsOf(x))[g])[f], LAMBDA filter :
        [i \in 1..Len(filter.ents) |-> filter.ents[i].key]
           # <<<<"key">>, <<"operator">>, <<"value">>>>)

\* The string is the same exactly when every filter was given as key, operator,
\* value, and what is decoded from a string encodes to that order.
C28_OperatorBeforeValue ==
  /\ \A x \in Insts : (Reencoded(QueryOf(x)) = QueryOf(x)) <=> ~ValueFirst(x)
  /\ Reencoded(Reencoded(QueryOf(last.on))) = Reencoded(QueryOf(last.on))
  /\ QueryOf(last.on) = TestQueryString =>
        Reencoded(TestQueryString) =
          Join(<< <<"includes", "[", "]", "=", "user">>, <<"includes", "[", "]", "=", "posts">>,
                  <<"sort", "[", "0", "]", "[", "key", "]", "=", "name">>,
                  <<"sort", "[", "0", "]", "[", "direction", "]", "=", "ASC">>,
                  FilterPath(0, 0, "key") \o <<"=", "status">>,
                  FilterPath(0, 0, "operator") \o <<"=", "eq">>,
                  FilterPath(0, 0, "value") \o <<"=", "active">>,
                  <<"limit", "=", "10">>, <<"page", "=", "1">>,
                  <<"custom_param", "=", "value">> >>, <<"&">>)

(***************************************************************************)
(* One argument given to two builders (C29).                               *)
(***************************************************************************)
\* list = [...]; y.setOptional(list); x.setOptional(list): x is given the object
\* y was given, which y still holds.
SetOptionalShared(x, y) ==
  LET c == setOptional(Ctx(heap, inst[x]), inst[y].params.optional)
      r == Return(x, c)
  IN /\ x # y /\ inst[y].params.optional.t = "ref"
     /\ heap' = r.heap /\ inst' = r.inst /\ err' = r.err
     /\ last' = Call("setOptional", x, Deep(heap, inst[y].params.optional), TUndef)

NextShare ==
  \/ \E arg \in {Mappings, StatusActive} : SetOptional("A", arg)
  \/ SetOptionalShared("B", "A")
  \/ \E arg \in {UserName, TArr(<<UserName>>)} : AddOptional("A", arg)
  \/ SetLimit("B", Num(10), Undef)

SpecShare == Init /\ [][NextShare]_vars

\* The cells two builders both reach.
SharedCells == CellsOf("A") \cap CellsOf("B")

\* C29: an operation on one builder leaves toObject() of the other builder as it
\* was, also when both were given the same list or mapping; the object given,
\* which the other builder shows, is not changed by the operation.
C29_Isolation ==
  [][\A x \in Insts : last'.on # x => Obj(x)' = Obj(x)]_vars

\* The same for two builders that hold no common list or mapping.
C29_IsolationUnshared ==
  [][\A x \in Insts : (last'.on # x /\ SharedCells = {}) => Obj(x)' = Obj(x)]_vars

\* A builder changes only what it holds: an operation that changed the other
\* builder's toObject() was an addOptional on a list both hold.
C29_PushOnShared ==
  [][\A x \in Insts : (last'.on # x /\ Obj(x)' # Obj(x)) =>
        /\ last'.op = "addOptional"
        /\ IsArray(heap, inst[x].params.optional)
        /\ inst[x].params.optional = inst[Other(x)].params.optional]_vars

(***************************************************************************)
(* The alias keys of the pagination parameters (C30).                      *)
(***************************************************************************)
\* x.setOffset(value, alias)
SetOffset(x, value, alias) ==
  LET c == setOffset(Ctx(heap, inst[x]), value, alias)
      r == Return(x, c)
  IN /\ heap' = r.heap /\ inst' = r.inst /\ err' = r.err
     /\ last' = Call("setOffset", x, TArr(<<TreeOf(value), TreeOf(alias)>>), TUndef)

\* x.setPerPage(value, alias)
SetPerPage(x, value, alias) ==
  LET c == setPerPage(Ctx(heap, inst[x]), value, alias)
      r == Return(x, c)
  IN /\ heap' = r.heap /\ inst' = r.inst /\ err' = r.err
     /\ last' = Call("setPerPage", x, TArr(<<TreeOf(value), TreeOf(alias)>>), TUndef)

NextAlias ==
  \/ \E value \in {Num(10), Null}, alias \in {Undef, Str(<<"size">>)} : SetLimit("A", value, alias)
  \/ \E value \in {Num(2), Null}, alias \in {Undef, Str(<<"p">>)} : SetPage("A", value, alias)
  \/ \E alias \in {Undef, Str(<<"skip">>)} : SetOffset("A", Num(5), alias)
  \/ \E value \in {Num(20), Null} : SetPerPage("A", value, Str(<<"per_page">>))
  \/ Clone("A", "A")
  \/ Reset("A")

SpecAlias == Init /\ [][NextAlias]_vars

SetterOf == [limit |-> "setLimit", offset |-> "setOffset", perPage |-> "setPerPage", page |-> "setPage"]
\* The alias a setter was called with (undefined when it was called with none).
AliasGiven(call) == ScalarOf(call.arg.ents[2].val)

\* A builder with an alias key for f emits f under that key and not under f.
AliasEmission ==
  \A x \in Insts, f \in AliasNames :
    Truthy(AliasOf(x)[f]) =>
      /\ SegmentsUnder(x, <<f>>) = {} /\ ~THas(Obj(x), <<f>>)
      /\ Truthy(inst[x].params[f]) =>
           /\ \E i \in SegmentsUnder(x, AliasOf(x)[f].s) :
                SegmentValue(Segments(QueryOf(x))[i]) = ToStr(heap, inst[x].params[f])
           /\ TGet(Obj(x), AliasOf(x)[f].s) = TreeOf(inst[x].params[f])
      /\ (last.op = SetterOf[f] /\ last.on = x /\ last.arg.ents[1].val.t = "num") =>
           TGet(Obj(x), AliasOf(x)[f].s) = last.arg.ents[1].val

\* What one call does to the alias key of f when every setter call with an alias
\* sets it: reset clears it, and every other call, clone included, keeps it.
AliasStep ==
  \A x \in Insts, f \in AliasNames :
    IF last'.on = x /\ last'.op = "reset" THEN AliasOf(x)'[f] = Null
    ELSE IF last'.on = x /\ last'.op = SetterOf[f] /\ Truthy(AliasGiven(last'))
    THEN AliasOf(x)'[f] = AliasGiven(last')
    ELSE AliasOf(x)'[f] = AliasOf(x)[f]

\* The same when a removal with null leaves the alias key as it was, whatever
\* alias the call was given.
AliasStepValue ==
  \A x \in Insts, f \in AliasNames :
    IF last'.on = x /\ last'.op = "reset" THEN AliasOf(x)'[f] = Null
    ELSE IF /\ last'.on = x /\ last'.op = SetterOf[f] /\ Truthy(AliasGiven(last'))
            /\ last'.arg.ents[1].val.t # "null"
    THEN AliasOf(x)'[f] = AliasGiven(last')
    ELSE AliasOf(x)'[f] = AliasOf(x)[f]

====
